---- MODULE Spec2Model ----
(***************************************************************************)
(* Verification model of grain's lazy dataset engine                       *)
(* (grain/_src/python/lazy_dataset/lazy_dataset.py).                       *)
(*                                                                         *)
(* Three iterators are modelled, each under its own specification:         *)
(*   Spec     ThreadPrefetchLazyDatasetIterator (consumer + work thread)   *)
(*   SpecMap  PrefetchLazyDatasetIterator (thread pool over a map dataset) *)
(*   SpecMP   MultiprocessPrefetchLazyDatasetIterator (worker pool)        *)
(* A specification leaves the variables of the other iterators unchanged.  *)
(***************************************************************************)
EXTENDS Integers, Sequences, FiniteSets, TLC

\* ---------------------------------------------------------------- bounds
MaxLen == 2          \* upstream iterators produce at most MaxLen elements
MaxBuf == 2          \* prefetch_buffer_size ranges over 0..MaxBuf
MaxRestores == 1     \* set_state calls per behaviour (thread-prefetch)
MaxDsLen == 3        \* map datasets have at most MaxDsLen elements
MaxWorkers == 2      \* num_workers ranges over 1..MaxWorkers
MaxMpRestores == 2   \* set_state calls per behaviour (process-prefetch)
MaxTarget == 3       \* packing target lengths T_f range over 1..MaxTarget
MaxElemLen == 2      \* a packed feature of an element has 1..MaxElemLen values
MaxSrcLen == 3       \* the packers' upstream produces at most MaxSrcLen elements
MaxBins == 3         \* num_packing_bins ranges over 1..MaxBins
MaxPkRestores == 1   \* set_state calls per behaviour (packing)
MaxNodes == 4        \* dataset nodes constructed per behaviour
MaxParents == 2      \* parents of a constructed dataset node
MaxRangeStop == 3    \* Range start and stop range over 0..MaxRangeStop
MaxIndex == 4        \* ds[index] is called with -MaxIndex..MaxIndex
MaxShards == 2       \* shard_count ranges over 1..MaxShards
MaxHeap == 7         \* dataset nodes after set_parent_maps_slice calls

\* ------------------------------------------------------------- constants
NoneVal == -1        \* Python's None
INITIAL_STATE_SENTINEL == -2

MaxGen == MaxRestores + 1   \* producers started: the first and one per restore

VARIABLES
  \* --- thread-prefetch: configuration
  upN,                 \* number of elements the upstream iterator produces
  upErr,               \* TRUE: the advance after the last element raises an
                       \* error; FALSE: it raises StopIteration
  prefetch_buffer_size,
  \* --- thread-prefetch: ThreadPrefetchLazyDatasetIterator fields
  iterator,            \* state of self._iterator: elements produced so far
  state,               \* self._state (NoneVal or an upstream state)
  closed,              \* self._closed
  producer_running,    \* self._producer_running: 0 (None) or the Event's id
  buffer,              \* self._buffer: 0 (None) or the Queue's id
  events,              \* the flag of every Event created
  queues,              \* the content of every buffer Queue created
  work_queue,          \* self._work_queue
  nGen,                \* Events/Queues created so far
  \* --- thread-prefetch: the work thread
  wpc,                 \* position of the work thread
  wjob,                \* the producer job it runs
  wtuple,              \* the tuple the producer is about to put
  \* --- thread-prefetch: the consumer thread
  cpc,                 \* position of the consumer ("idle" between calls)
  carg,                \* the call in progress and its argument
  ret,                 \* what the last finished call returned or raised
  \* --- thread-prefetch: observers
  cursor,              \* elements delivered, counted from the restored state
  snap,                \* a snapshot the caller kept from state()
  restores,            \* set_state calls so far
  ended,               \* a next() raised since the last set_state
  hist,                \* facts about the calls made so far
  \* --- map-prefetch: configuration
  pf_dataset,          \* the map dataset: element i at position i + 1,
                       \* NoneVal where the element is absent
  pf_buffer_size,      \* read_options.prefetch_buffer_size
  pf_allow_nones,
  pf_raises,           \* the indices at which dataset[i] raises an error
  \* --- map-prefetch: PrefetchLazyDatasetIterator fields
  pf_next_index,       \* self._next_index
  pf_buffer,           \* self._buffer: None, or the deque of futures, each
                       \* given by the index it was submitted for
  \* --- map-prefetch: the same calls made on an iterator with buffer size 0
  sync_next_index,
  sync_ret,
  \* --- map-prefetch: observers
  pf_ret,              \* what the last call returned or raised
  pf_prev,             \* next_index when the last next() was called
  pf_snap,             \* a snapshot the caller kept from state()
  pf_restored,         \* set_state was called
  \* --- process-prefetch: configuration
  mp_source,           \* the map dataset under the parent iter dataset
  num_workers,         \* multiprocessing_options.num_workers
  mp_nested,           \* the parent is an iter dataset over the iter dataset
                       \* that reads mp_source
  \* --- process-prefetch: MultiprocessPrefetchLazyDatasetIterator fields
  mp_state,            \* self._state
  mp_started,          \* self._iterator is not None
  \* --- process-prefetch: the pool and its worker processes
  wk_index,            \* per worker: next_index of its iterator
  pool_next,           \* the worker the pool takes the next element from
  pool_done,           \* workers whose iterator is exhausted
  \* --- process-prefetch: observers
  mp_ret,              \* what the last call returned or raised
  mp_ref,              \* the elements of the run before any restore
  mp_ref_ended,        \* that run reached end-of-stream
  mp_pos,              \* position of the iterator in the element sequence
  mp_snap,             \* a snapshot the caller kept from state(): the
                       \* record, the position it was taken at, and whether
                       \* that position is no longer known (the record was
                       \* changed after state() returned it, or it was taken
                       \* after such a record was restored)
  mp_alias,            \* self._state is the record the caller keeps
  mp_restores,         \* set_state calls so far
  mp_clean,            \* the position of the restored record was known
  \* --- packing: configuration
  pk_kind,             \* "single_bin" or "first_fit"
  pk_T,                \* length_struct: the target length of every feature
  pk_K,                \* num_packing_bins (1 for the single-bin packer)
  pk_src,              \* the upstream elements: per element, the length of
                       \* every feature
  \* --- packing: the iterator
  pk_pos,              \* elements taken from the upstream iterator
  pk_rows,             \* the in-progress bins
  pk_queue,            \* completed records not yet returned
  \* --- packing: observers
  pk_ret,              \* what the last call returned or raised
  pk_prev,             \* the bins when the last next() was called
  pk_log,              \* what the last next() did with each element it took
  pk_trunc,            \* some element lost values when it was copied
  pk_out,              \* the records of the run before any restore
  pk_ended,            \* that run reached end-of-stream
  pk_step,             \* position of the iterator in the record sequence
  pk_snap,             \* a snapshot the caller kept from state()
  pk_restores,         \* set_state calls so far
  pk_shuffle,          \* first-fit packer: shuffle_bins
  \* --- dataset classes
  ds_nodes,            \* the datasets constructed so far: kind and parents
  ds_ret,              \* the last construction: what it made or raised
  functions,           \* _functions of LazyMapDataset and LazyIterDataset
  rg_ret,              \* the last register_function call and its outcome
  rn_args,             \* the Range dataset: start, stop, step
  rn_shard,            \* the Shard dataset over it: its shard options
  rn_ret               \* the last ds[index] call and its outcome

tvars == <<upN, upErr, prefetch_buffer_size, iterator, state, closed,
           producer_running, buffer, events, queues, work_queue, nGen,
           wpc, wjob, wtuple, cpc, carg, ret, cursor, snap, restores,
           ended, hist>>

mvars == <<pf_dataset, pf_buffer_size, pf_allow_nones, pf_raises, pf_next_index,
           pf_buffer, sync_next_index, sync_ret, pf_ret, pf_prev, pf_snap,
           pf_restored>>

pvars == <<mp_source, num_workers, mp_nested, mp_state, mp_started, wk_index, pool_next,
           pool_done, mp_ret, mp_ref, mp_ref_ended, mp_pos, mp_snap, mp_alias,
           mp_restores, mp_clean>>

kvars == <<pk_kind, pk_T, pk_K, pk_src, pk_pos, pk_rows, pk_queue, pk_ret,
           pk_prev, pk_log, pk_trunc, pk_out, pk_ended, pk_step, pk_snap,
           pk_restores, pk_shuffle>>

dvars == <<ds_nodes, ds_ret, functions, rg_ret, rn_args, rn_shard, rn_ret>>

vars == <<tvars, mvars, pvars, kvars, dvars>>

\* ------------------------------------------------------------ upstream
\* The k-th element (k >= 1) of the upstream iterator.  Its state after k
\* elements is k, as for PrefetchLazyDatasetIterator.get_state.
UpElem(k) == 100 + k

Gens == 1..MaxGen

NoTuple == [el |-> NoneVal, st |-> NoneVal, err |-> "none"]
NoJob == [kind |-> "none", gen |-> 0, init |-> NoneVal]
NoRet == [kind |-> "none", val |-> NoneVal]
NoHist == [nextCalled |-> FALSE, stateFirst |-> FALSE,
           restoredAfterEnd |-> FALSE, readAhead |-> FALSE]

\* queue.Queue(maxsize): maxsize <= 0 means unbounded.
QueueFull(q) == prefetch_buffer_size > 0 /\ Len(q) >= prefetch_buffer_size

\* Mutant of QueuePut: the new entry goes to the head (LIFO).
QueuePutFront(q, x) == <<x>> \o q

\* queue.Queue.put of a non-full queue (FIFO).
QueuePut(q, x) == Append(q, x)

TFields ==
  /\ iterator = 0
  /\ state = NoneVal
  /\ closed = FALSE
  /\ producer_running = 0
  /\ buffer = 0
  /\ events = [g \in Gens |-> FALSE]
  /\ queues = [g \in Gens |-> <<>>]
  /\ work_queue = <<>>
  /\ nGen = 0
  /\ wpc = "none"
  /\ wjob = NoJob
  /\ wtuple = NoTuple
  /\ cpc = "idle"
  /\ carg = [op |-> "none", arg |-> NoneVal]
  /\ ret = NoRet
  /\ cursor = 0
  /\ snap = NoneVal
  /\ restores = 0
  /\ ended = FALSE
  /\ hist = NoHist

TInit ==
  /\ upN \in 0..MaxLen
  /\ upErr \in BOOLEAN
  /\ prefetch_buffer_size \in 0..MaxBuf
  /\ TFields

\* The thread-prefetch iterator while another iterator is explored.
TIdle ==
  /\ upN = 0
  /\ upErr = FALSE
  /\ prefetch_buffer_size = 0
  /\ TFields

\* ---------------------------------------------------- consumer thread
ValueError == [kind |-> "ValueError", val |-> NoneVal]
AssertionError == [kind |-> "AssertionError", val |-> NoneVal]

\* Mutant of StartProducer: a restore reuses the Event and the Queue of the
\* producer it stopped.
StartProducerSameBuffer(initial_state) ==
  /\ nGen' = IF producer_running = 0 THEN nGen + 1 ELSE nGen
  /\ wpc' = IF wpc = "none" THEN "loop" ELSE wpc
  /\ state' = initial_state
  /\ producer_running' = IF producer_running = 0 THEN nGen + 1
                         ELSE producer_running
  /\ events' = [events EXCEPT ![producer_running'] = TRUE]
  /\ buffer' = producer_running'
  /\ work_queue' = Append(work_queue,
                     [kind |-> "producer", gen |-> producer_running',
                      init |-> initial_state])

\* _start_producer after its closed / already-running checks: the work thread
\* is started on first use, a new Event and Queue are created and the producer
\* job is handed to the work thread.
StartProducer(initial_state) ==
  /\ nGen' = nGen + 1
  /\ wpc' = IF wpc = "none" THEN "loop" ELSE wpc
  /\ state' = initial_state
  /\ producer_running' = nGen + 1
  /\ events' = [events EXCEPT ![nGen + 1] = TRUE]
  /\ buffer' = nGen + 1
  /\ work_queue' = Append(work_queue,
                     [kind |-> "producer", gen |-> nGen + 1,
                      init |-> initial_state])

\* Mutant of StateAfterGet: the state is assigned before the error is looked at.
StateAfterGetEager(cur, t) == t.st

\* What self._state holds after __next__ took tuple t from the buffer while
\* it held cur: an error tuple is raised before the state is touched.
StateAfterGet(cur, t) == IF t.err # "none" THEN cur ELSE t.st

\* __next__ up to its blocking buffer.get(): start_prefetch().
NextCall ==
  /\ cpc = "idle"
  /\ IF closed
       THEN /\ ret' = ValueError
            /\ UNCHANGED <<state, producer_running, buffer, events,
                           work_queue, nGen, wpc, cpc, carg, hist>>
       ELSE /\ cpc' = "next_get"
            /\ carg' = [op |-> "next", arg |-> NoneVal]
            /\ hist' = [hist EXCEPT !.nextCalled = TRUE]
            /\ IF producer_running = 0
                 THEN StartProducer(NoneVal)
                 ELSE UNCHANGED <<state, producer_running, buffer, events,
                                  work_queue, nGen, wpc>>
            /\ UNCHANGED ret
  /\ UNCHANGED <<mvars, pvars, kvars, dvars>>
  /\ UNCHANGED <<upN, upErr, prefetch_buffer_size, iterator, closed, queues,
                 wjob, wtuple, cursor, snap, restores, ended>>

\* __next__ from buffer.get() on: raise the error, or record the initial
\* state and call next(self) again, or record the state and return.
NextGet ==
  /\ cpc = "next_get"
  /\ queues[buffer] # <<>>
  /\ LET t == Head(queues[buffer]) IN
     /\ queues' = [queues EXCEPT ![buffer] = Tail(@)]
     /\ state' = IF t.err = "none"
                      /\ (state = NoneVal) # (t.el = INITIAL_STATE_SENTINEL)
                    THEN state
                    ELSE StateAfterGet(state, t)
     /\ IF t.err # "none"
          THEN /\ ret' = [kind |-> t.err, val |-> NoneVal]
               /\ cpc' = "idle"
               /\ ended' = TRUE
               /\ UNCHANGED cursor
          ELSE IF state = NoneVal \/ t.el = INITIAL_STATE_SENTINEL
            THEN IF t.el # INITIAL_STATE_SENTINEL \/ state # NoneVal
                   THEN /\ ret' = AssertionError
                        /\ cpc' = "idle"
                        /\ UNCHANGED <<cursor, ended>>
                   ELSE \* return next(self): start_prefetch finds the
                        \* producer running and the call blocks in get again
                        UNCHANGED <<ret, cpc, cursor, ended>>
            ELSE /\ ret' = [kind |-> "elem", val |-> t.el]
                 /\ cpc' = "idle"
                 /\ cursor' = cursor + 1
                 /\ UNCHANGED ended
  /\ UNCHANGED <<mvars, pvars, kvars, dvars>>
  /\ UNCHANGED <<upN, upErr, prefetch_buffer_size, iterator, closed,
                 producer_running, buffer, events, work_queue, nGen, wpc,
                 wjob, wtuple, carg, snap, restores, hist>>

\* Observer: state() is called on a fresh iterator before any next().
StateFirst == hist.stateFirst \/ (~hist.nextCalled /\ restores = 0)

\* get_state returning s: the caller may keep the snapshot.
StateReturn(s) ==
  /\ ret' = [kind |-> "state", val |-> s]
  /\ snap' \in {snap, s}
  /\ hist' = [hist EXCEPT !.stateFirst = StateFirst,
                           !.readAhead = iterator > s]

\* get_state up to its blocking buffer.get().
StateCall ==
  /\ cpc = "idle"
  /\ IF closed
       THEN /\ ret' = ValueError
            /\ UNCHANGED <<state, producer_running, buffer, events,
                           work_queue, nGen, wpc, cpc, carg, snap, hist>>
       ELSE IF producer_running = 0
         THEN /\ StartProducer(NoneVal)
              /\ cpc' = "state_get"
              /\ carg' = [op |-> "state", arg |-> NoneVal]
              /\ hist' = [hist EXCEPT !.stateFirst = StateFirst]
              /\ UNCHANGED <<ret, snap>>
         ELSE /\ UNCHANGED <<state, producer_running, buffer, events,
                             work_queue, nGen, wpc>>
              /\ IF state = NoneVal
                   THEN /\ cpc' = "state_get"
                        /\ carg' = [op |-> "state", arg |-> NoneVal]
                        /\ hist' = [hist EXCEPT !.stateFirst = StateFirst]
                        /\ UNCHANGED <<ret, snap>>
                   ELSE /\ StateReturn(state)
                        /\ UNCHANGED <<cpc, carg>>
  /\ UNCHANGED <<mvars, pvars, kvars, dvars>>
  /\ UNCHANGED <<upN, upErr, prefetch_buffer_size, iterator, closed, queues,
                 wjob, wtuple, cursor, restores, ended>>

\* get_state from buffer.get() on.
StateGet ==
  /\ cpc = "state_get"
  /\ queues[buffer] # <<>>
  /\ LET t == Head(queues[buffer]) IN
     /\ queues' = [queues EXCEPT ![buffer] = Tail(@)]
     /\ cpc' = "idle"
     /\ IF t.err # "none"
          THEN /\ ret' = [kind |-> t.err, val |-> NoneVal]
               /\ UNCHANGED <<state, snap, hist>>
          ELSE IF t.el # INITIAL_STATE_SENTINEL \/ t.st = NoneVal
            THEN /\ ret' = AssertionError
                 /\ UNCHANGED <<state, snap, hist>>
            ELSE /\ state' = t.st
                 /\ StateReturn(t.st)
  /\ UNCHANGED <<mvars, pvars, kvars, dvars>>
  /\ UNCHANGED <<upN, upErr, prefetch_buffer_size, iterator, closed,
                 producer_running, buffer, events, work_queue, nGen, wpc,
                 wjob, wtuple, carg, cursor, restores, ended>>

\* set_state(s) after _stop_producer: assign, drop the buffer, start again.
SetStateTail(s) ==
  /\ StartProducer(s)
  /\ ret' = [kind |-> "restored", val |-> s]
  /\ cursor' = s
  /\ ended' = FALSE
  /\ restores' = restores + 1
  /\ hist' = [hist EXCEPT !.restoredAfterEnd = ended]

\* set_state up to the drain loop of _stop_producer.  The argument is a
\* snapshot that state() returned.
SetStateCall ==
  /\ cpc = "idle"
  /\ snap # NoneVal
  /\ restores < MaxRestores
  /\ IF producer_running # 0
       THEN /\ events' = [events EXCEPT ![producer_running] = FALSE]
            /\ cpc' = "drain"
            /\ carg' = [op |-> "set_state", arg |-> snap]
            /\ UNCHANGED <<state, producer_running, buffer, work_queue, nGen,
                           wpc, ret, cursor, ended, restores, hist>>
       ELSE IF closed
         THEN \* _stop_producer has nothing to stop, _state is assigned and
              \* _start_producer raises
              /\ state' = snap
              /\ ret' = ValueError
              /\ restores' = restores + 1
              /\ UNCHANGED <<producer_running, buffer, events, work_queue,
                             nGen, wpc, cpc, carg, cursor, ended, hist>>
         ELSE /\ SetStateTail(snap)
              /\ UNCHANGED <<cpc, carg>>
  /\ UNCHANGED <<mvars, pvars, kvars, dvars>>
  /\ UNCHANGED <<upN, upErr, prefetch_buffer_size, iterator, closed, queues,
                 wjob, wtuple, snap>>

\* Mutant of CloseCall: the producer's Event is not cleared.
CloseCallNoClear ==
  /\ cpc = "idle"
  /\ ~closed
  /\ closed' = TRUE
  /\ IF producer_running # 0
       THEN /\ cpc' = "drain"
            /\ carg' = [op |-> "close", arg |-> NoneVal]
            /\ UNCHANGED <<events, work_queue, ret>>
       ELSE /\ work_queue' = Append(work_queue, [NoJob EXCEPT !.kind = "noop"])
            /\ ret' = [kind |-> "closed", val |-> NoneVal]
            /\ UNCHANGED <<events, cpc, carg>>
  /\ UNCHANGED <<mvars, pvars, kvars, dvars>>
  /\ UNCHANGED <<upN, upErr, prefetch_buffer_size, iterator, state,
                 producer_running, buffer, queues, nGen, wpc, wjob, wtuple,
                 cursor, snap, restores, ended, hist>>

\* close(): set the flag, then _stop_producer.
CloseCall ==
  /\ cpc = "idle"
  /\ ~closed
  /\ closed' = TRUE
  /\ IF producer_running # 0
       THEN /\ events' = [events EXCEPT ![producer_running] = FALSE]
            /\ cpc' = "drain"
            /\ carg' = [op |-> "close", arg |-> NoneVal]
            /\ UNCHANGED <<work_queue, ret>>
       ELSE /\ work_queue' = Append(work_queue, [NoJob EXCEPT !.kind = "noop"])
            /\ ret' = [kind |-> "closed", val |-> NoneVal]
            /\ UNCHANGED <<events, cpc, carg>>
  /\ UNCHANGED <<mvars, pvars, kvars, dvars>>
  /\ UNCHANGED <<upN, upErr, prefetch_buffer_size, iterator, state,
                 producer_running, buffer, queues, nGen, wpc, wjob, wtuple,
                 cursor, snap, restores, ended, hist>>

\* One buffer.get_nowait() of _stop_producer's drain loop; on queue.Empty the
\* loop ends, the producer fields are reset and the caller goes on.
Drain ==
  /\ cpc = "drain"
  /\ IF queues[buffer] # <<>>
       THEN /\ queues' = [queues EXCEPT ![buffer] = Tail(@)]
            /\ UNCHANGED <<state, producer_running, buffer, events,
                           work_queue, nGen, wpc, cpc, carg, ret, cursor,
                           restores, ended, hist>>
       ELSE /\ cpc' = "idle"
            /\ carg' = [op |-> "none", arg |-> NoneVal]
            /\ UNCHANGED queues
            /\ IF carg.op = "set_state"
                 THEN SetStateTail(carg.arg)
                 ELSE /\ producer_running' = 0
                      /\ buffer' = 0
                      /\ work_queue' = Append(work_queue,
                                         [NoJob EXCEPT !.kind = "noop"])
                      /\ ret' = [kind |-> "closed", val |-> NoneVal]
                      /\ UNCHANGED <<state, events, nGen, wpc, cursor,
                                     restores, ended, hist>>
  /\ UNCHANGED <<mvars, pvars, kvars, dvars>>
  /\ UNCHANGED <<upN, upErr, prefetch_buffer_size, iterator, closed, wjob,
                 wtuple, snap>>

\* Mutant of ClosedCheck: the closed flag is not looked at.
ClosedCheckSkipped(c) == FALSE

\* `if self._closed: raise ValueError(...)`, the first statement of
\* start_prefetch and of _start_producer.
ClosedCheck(c) == c

\* start_prefetch() called by the user: the producer is started through
\* _start_producer unless one is running.
StartPrefetchCall ==
  /\ cpc = "idle"
  /\ IF ClosedCheck(closed)
       THEN /\ ret' = ValueError
            /\ UNCHANGED <<state, producer_running, buffer, events,
                           work_queue, nGen, wpc>>
       ELSE IF producer_running # 0
         THEN /\ ret' = [kind |-> "started", val |-> NoneVal]
              /\ UNCHANGED <<state, producer_running, buffer, events,
                             work_queue, nGen, wpc>>
         ELSE IF ClosedCheck(closed)
           THEN /\ ret' = ValueError
                /\ UNCHANGED <<state, producer_running, buffer, events,
                               work_queue, nGen, wpc>>
           ELSE /\ ret' = [kind |-> "started", val |-> NoneVal]
                /\ StartProducer(NoneVal)
  /\ UNCHANGED <<mvars, pvars, kvars, dvars>>
  /\ UNCHANGED <<upN, upErr, prefetch_buffer_size, iterator, closed, queues,
                 wjob, wtuple, cpc, carg, cursor, snap, restores, ended,
                 hist>>

\* The caller writes into the record the last state() returned.  get_state
\* ends with `return self._state`: the record is self._state itself, so the
\* write lands in the iterator's field.
CallerModifies ==
  /\ cpc = "idle"
  /\ ret.kind = "state"
  /\ \E v \in 0..upN :
       /\ v # state
       /\ state' = v
       /\ ret' = [kind |-> "modified", val |-> v]
  /\ UNCHANGED <<mvars, pvars, kvars, dvars>>
  /\ UNCHANGED <<upN, upErr, prefetch_buffer_size, iterator, closed,
                 producer_running, buffer, events, queues, work_queue, nGen,
                 wpc, wjob, wtuple, cpc, carg, cursor, snap, restores, ended,
                 hist>>

\* -------------------------------------------------------- work thread
\* _work_loop: the test of `while not self._closed`.
WorkLoop ==
  /\ wpc = "loop"
  /\ wpc' = IF closed THEN "exited" ELSE "get"
  /\ UNCHANGED <<mvars, pvars, kvars, dvars>>
  /\ UNCHANGED <<upN, upErr, prefetch_buffer_size, iterator, state, closed,
                 producer_running, buffer, events, queues, work_queue, nGen,
                 wjob, wtuple, cpc, carg, ret, cursor, snap, restores, ended,
                 hist>>

\* Mutant of WorkGet: the next job is taken while a producer job has not
\* returned.
WorkGetPreempting ==
  /\ wpc \in {"get", "producer_put"}
  /\ work_queue # <<>>
  /\ work_queue' = Tail(work_queue)
  /\ IF Head(work_queue).kind = "producer"
       THEN /\ wjob' = Head(work_queue)
            /\ wpc' = "producer_start"
       ELSE /\ wpc' = "loop"
            /\ UNCHANGED wjob
  /\ UNCHANGED <<mvars, pvars, kvars, dvars>>
  /\ UNCHANGED <<upN, upErr, prefetch_buffer_size, iterator, state, closed,
                 producer_running, buffer, events, queues, nGen, wtuple, cpc,
                 carg, ret, cursor, snap, restores, ended, hist>>

\* _work_loop: self._work_queue.get() returns a job and the job is called.
WorkGet ==
  /\ wpc = "get"
  /\ work_queue # <<>>
  /\ work_queue' = Tail(work_queue)
  /\ IF Head(work_queue).kind = "producer"
       THEN /\ wjob' = Head(work_queue)
            /\ wpc' = "producer_start"
       ELSE /\ wpc' = "loop"
            /\ UNCHANGED wjob
  /\ UNCHANGED <<mvars, pvars, kvars, dvars>>
  /\ UNCHANGED <<upN, upErr, prefetch_buffer_size, iterator, state, closed,
                 producer_running, buffer, events, queues, nGen, wtuple, cpc,
                 carg, ret, cursor, snap, restores, ended, hist>>

\* Mutant of InitialTuple: None is put in place of the sentinel.
InitialTupleNone(pos) == [el |-> NoneVal, st |-> pos, err |-> "none"]

\* The tuple the producer puts first when it was given no initial state: the
\* sentinel with the state of the upstream iterator at position pos.
InitialTuple(pos) ==
  [el |-> INITIAL_STATE_SENTINEL, st |-> pos, err |-> "none"]

\* Mutant of ProducerStart: the sentinel is put also after a restore.
ProducerStartSentinelAlways ==
  /\ wpc = "producer_start"
  /\ ~QueueFull(queues[wjob.gen])
  /\ queues' = [queues EXCEPT ![wjob.gen] =
                  QueuePut(@, InitialTuple(IF wjob.init # NoneVal
                                             THEN wjob.init ELSE iterator))]
  /\ iterator' = IF wjob.init # NoneVal THEN wjob.init ELSE iterator
  /\ wpc' = "producer_loop"
  /\ UNCHANGED <<mvars, pvars, kvars, dvars>>
  /\ UNCHANGED <<upN, upErr, prefetch_buffer_size, state, closed,
                 producer_running, buffer, events, work_queue, nGen, wjob,
                 wtuple, cpc, carg, ret, cursor, snap, restores, ended, hist>>

\* _producer: restore the upstream iterator, or put the sentinel with the
\* upstream iterator's pre-iteration state.
ProducerStart ==
  /\ wpc = "producer_start"
  /\ IF wjob.init # NoneVal
       THEN /\ iterator' = wjob.init
            /\ UNCHANGED queues
       ELSE /\ ~QueueFull(queues[wjob.gen])
            /\ queues' = [queues EXCEPT ![wjob.gen] =
                 QueuePut(@, InitialTuple(iterator))]
            /\ UNCHANGED iterator
  /\ wpc' = "producer_loop"
  /\ UNCHANGED <<mvars, pvars, kvars, dvars>>
  /\ UNCHANGED <<upN, upErr, prefetch_buffer_size, state, closed,
                 producer_running, buffer, events, work_queue, nGen, wjob,
                 wtuple, cpc, carg, ret, cursor, snap, restores, ended, hist>>

\* Mutant of ProducedTuple: get_state() is called before next().
ProducedTupleStale(pos) ==
  IF pos < upN
    THEN [el |-> UpElem(pos + 1), st |-> pos, err |-> "none"]
    ELSE [el |-> NoneVal, st |-> NoneVal,
          err |-> IF upErr THEN "Error" ELSE "StopIteration"]

\* The tuple one pass of the producer loop builds from the upstream iterator
\* at position pos: next() and get_state(), or the exception next() raises.
ProducedTuple(pos) ==
  IF pos < upN
    THEN [el |-> UpElem(pos + 1), st |-> pos + 1, err |-> "none"]
    ELSE [el |-> NoneVal, st |-> NoneVal,
          err |-> IF upErr THEN "Error" ELSE "StopIteration"]

\* _producer: `while running.is_set()`, then next(self._iterator) and
\* self._iterator.get_state().  Only the work thread uses the upstream
\* iterator, so the test and the advance are one step.
ProducerAdvance ==
  /\ wpc = "producer_loop"
  /\ IF events[wjob.gen]
       THEN /\ wtuple' = ProducedTuple(iterator)
            /\ iterator' = IF iterator < upN THEN iterator + 1 ELSE iterator
            /\ wpc' = "producer_put"
            /\ UNCHANGED wjob
       ELSE /\ wpc' = "loop"
            /\ wjob' = NoJob
            /\ UNCHANGED <<iterator, wtuple>>
  /\ UNCHANGED <<mvars, pvars, kvars, dvars>>
  /\ UNCHANGED <<upN, upErr, prefetch_buffer_size, state, closed,
                 producer_running, buffer, events, queues, work_queue, nGen,
                 cpc, carg, ret, cursor, snap, restores, ended, hist>>

\* _producer: output_buffer.put, blocking while the queue is full.  After an
\* error tuple (put by the except clause) the producer returns.
ProducerPut ==
  /\ wpc = "producer_put"
  /\ ~QueueFull(queues[wjob.gen])
  /\ queues' = [queues EXCEPT ![wjob.gen] = QueuePut(@, wtuple)]
  /\ wtuple' = NoTuple
  /\ IF wtuple.err # "none"
       THEN /\ wpc' = "loop"
            /\ wjob' = NoJob
       ELSE /\ wpc' = "producer_loop"
            /\ UNCHANGED wjob
  /\ UNCHANGED <<mvars, pvars, kvars, dvars>>
  /\ UNCHANGED <<upN, upErr, prefetch_buffer_size, iterator, state, closed,
                 producer_running, buffer, events, work_queue, nGen, cpc,
                 carg, ret, cursor, snap, restores, ended, hist>>

\* ------------------------------------------------- thread-prefetch claims
\* Element tuples (neither sentinel nor error) in a buffer queue.
ElemTuples(q) ==
  Cardinality({i \in DOMAIN q :
                 q[i].err = "none" /\ q[i].el # INITIAL_STATE_SENTINEL})

\* A producer that can still put into buffer g: running or queued.
ProducerAlive(g) ==
  \/ wjob.gen = g
  \/ \E i \in DOMAIN work_queue : work_queue[i].gen = g

\* C1: without a restore, the k-th successful next() returns the k-th element
\* of the upstream iterator, and end-of-stream is signalled only after all upN
\* elements were returned: nothing is dropped, duplicated or reordered, for
\* every buffer size and every interleaving of producer and consumer.
ThreadOrderPreserved ==
  restores = 0 =>
    /\ ret.kind = "elem" => ret.val = UpElem(cursor)
    /\ ret.kind = "StopIteration" => cursor = upN /\ ~upErr
    /\ cursor <= upN

\* The last of two or more elements was returned while the buffer was bounded.
ThreadOrderWitness ==
  /\ restores = 0
  /\ ret.kind = "elem"
  /\ cursor >= 2
  /\ cursor = upN
  /\ prefetch_buffer_size = 1

\* C2: state() after k returned elements is the upstream state right after the
\* k-th element, however far the producer has read ahead, and after set_state
\* of such a snapshot the next() calls return the elements that follow it,
\* also when the restore came after end-of-stream.
ThreadCheckpointSufficient ==
  /\ ret.kind = "state" => ret.val = cursor
  /\ (restores > 0 /\ ret.kind = "elem") => ret.val = UpElem(cursor)
  /\ (restores > 0 /\ ret.kind = "StopIteration") => cursor = upN /\ ~upErr
  /\ ret.kind = "restored" => state = cursor /\ cursor = ret.val

\* An element was returned after restoring, once end-of-stream had been
\* signalled, a snapshot taken while the producer had read ahead.
ThreadCheckpointWitness ==
  /\ restores > 0
  /\ ret.kind = "elem"
  /\ hist.restoredAfterEnd
  /\ hist.readAhead

\* C4: state() before any next() returns the upstream pre-iteration state and
\* takes no element out of the buffer: every element the producer has read is
\* still queued or about to be put, and the first next() returns element 1.
StateBeforeNextKeepsFirst ==
  (hist.stateFirst /\ restores = 0 /\ ~closed) =>
    /\ (~hist.nextCalled /\ cpc = "idle") =>
         /\ ret = [kind |-> "state", val |-> 0]
         /\ state = 0
         /\ iterator = ElemTuples(queues[buffer])
                         + (IF wtuple.err = "none" /\ wtuple.el # NoneVal
                              THEN 1 ELSE 0)
    /\ (ret.kind = "elem" /\ cursor = 1) => ret.val = UpElem(1)
    /\ (ret.kind \in {"StopIteration", "Error"}) => cursor = upN

\* state() came first, the producer had read ahead, and next() returned the
\* first element.
StateBeforeNextWitness ==
  /\ hist.stateFirst
  /\ hist.readAhead
  /\ restores = 0
  /\ ret = [kind |-> "elem", val |-> UpElem(1)]

\* C9: a next() made after a next() signalled end-of-stream or raised never
\* blocks forever: while it waits, the buffer holds a tuple or a producer that
\* can still put one is running or queued.
NextAfterEndTerminates ==
  (cpc = "next_get" /\ ended) =>
    (queues[buffer] # <<>> \/ ProducerAlive(buffer))

\* C10: the upstream error reaches the consumer only after all upN elements
\* before it were returned, and the recorded state is still the state after
\* the last returned element.
ErrorDeliveredInPosition ==
  ret.kind = "Error" => upErr /\ cursor = upN /\ state = upN

\* The error was raised by the call after two returned elements.
ErrorDeliveredWitness ==
  /\ ret.kind = "Error"
  /\ restores = 0
  /\ cursor >= 2

\* C11: once close() has returned, every call on the iterator (next, state,
\* set_state, start_prefetch) raises ValueError without blocking, no element
\* is delivered, and no producer is started: no new Event or Queue, no
\* producer job queued, the producer fields stay None.
UseAfterCloseRejected ==
  [][(closed /\ cpc = "idle") =>
       /\ cpc' = "idle"
       /\ nGen' = nGen
       /\ producer_running' = 0 /\ buffer' = 0
       /\ Len(work_queue') <= Len(work_queue)
       /\ cursor' = cursor
       /\ ret'.kind \in {"closed", "ValueError"}
       /\ (wpc' = wpc /\ vars' # vars) => ret' = ValueError]_vars

\* A call was rejected on a closed iterator whose producer had run and whose
\* caller holds a snapshot to restore.
UseAfterCloseWitness ==
  /\ closed /\ cpc = "idle"
  /\ ret = ValueError
  /\ nGen > 0
  /\ snap # NoneVal

\* C12: when close() has returned, the producer has stopped and the work
\* thread has left its loop (or was never started).
CloseJoinsWorkThread ==
  ret.kind = "closed" => (wpc \in {"none", "exited"} /\ wjob = NoJob)

\* C13: every buffer queue holds at most prefetch_buffer_size entries, for
\* every prefetch_buffer_size >= 0.
BufferBounded ==
  \A g \in Gens : Len(queues[g]) <= prefetch_buffer_size

\* C14: state() returns the state after the last returned element, whatever
\* the caller wrote into the records earlier state() calls returned.
StateReturnsCopy ==
  ret.kind = "state" => ret.val = cursor

\* C35: after set_state(s) the consumer's buffer, until it is discarded in
\* its turn, only ever holds the tuples of the elements that follow the last
\* returned one, in order, so nothing
\* the previous producer buffered or was producing is returned: state()
\* returns s until a next() returns, and the next() calls return the
\* elements after s.
RestoreDropsOldElements ==
  restores > 0 =>
    /\ (buffer # 0 /\ cpc # "drain") =>
         \A i \in DOMAIN queues[buffer] :
           queues[buffer][i].err = "none" =>
             queues[buffer][i] = [el |-> UpElem(cursor + i),
                                  st |-> cursor + i, err |-> "none"]
    /\ ret.kind = "restored" => (state = ret.val /\ cursor = ret.val)
    /\ (ret.kind = "state" /\ ~closed) => (ret.val = cursor /\ state = cursor)
    /\ ret.kind = "elem" => (ret.val = UpElem(cursor) /\ state = cursor)

\* The first next() after a restore returned the element after the snapshot
\* while the old buffer holds a tuple the interrupted producer put after the
\* drain, for an element further on.
RestoreDropsOldElementsWitness ==
  /\ restores = 1
  /\ ret = [kind |-> "elem", val |-> UpElem(snap + 1)]
  /\ cursor = snap + 1
  /\ prefetch_buffer_size > 0
  /\ queues[1] # <<>>
  /\ queues[1][1].st > cursor

\* The consumer takes the head tuple out of its buffer in next() or state().
ConsumerGets ==
  /\ cpc \in {"next_get", "state_get"}
  /\ queues[buffer] # <<>>
  /\ queues'[buffer] = Tail(queues[buffer])

\* C36: the assertions of next() and state() never fail: a tuple the consumer
\* takes that carries no error is the sentinel exactly when the recorded
\* state is None, and taking it sets the recorded state; a sentinel in the
\* consumer's buffer is its first tuple and the recorded state is then None,
\* so it is seen at most once per producer start.
SentinelSeenOnce ==
  /\ [](/\ ret # AssertionError
        /\ buffer # 0 =>
             \A i \in DOMAIN queues[buffer] :
               queues[buffer][i].el = INITIAL_STATE_SENTINEL =>
                 (i = 1 /\ state = NoneVal))
  /\ [][(ConsumerGets /\ Head(queues[buffer]).err = "none") =>
          /\ (Head(queues[buffer]).el = INITIAL_STATE_SENTINEL)
               <=> (state = NoneVal)
          /\ state' = Head(queues[buffer]).st
          /\ state' # NoneVal]_vars

\* After a state() on the fresh iterator, which took the sentinel, next()
\* returned the first element without meeting a sentinel again.
SentinelSeenOnceWitness ==
  /\ hist.stateFirst
  /\ restores = 0
  /\ ret = [kind |-> "elem", val |-> UpElem(1)]
  /\ state = 1
  /\ nGen = 1

\* The work thread is inside a producer job.
InProducer == wpc \in {"producer_start", "producer_loop", "producer_put"}

\* C38: the upstream iterator only changes in a step of the work thread inside
\* a producer job; while a producer job executes, every producer job still
\* queued was started later, and the jobs of earlier producers have returned,
\* so a new producer's restore comes after the last upstream call of the
\* producer before it; there is one job at a time, executed by the one work
\* thread.
OneProducerAtATime ==
  /\ [](/\ InProducer <=> wjob.kind = "producer"
        /\ InProducer =>
             \A i \in DOMAIN work_queue :
               work_queue[i].kind = "producer" =>
                 work_queue[i].gen > wjob.gen
        /\ \A i, j \in DOMAIN work_queue :
             (i < j /\ work_queue[i].kind = "producer"
                    /\ work_queue[j].kind = "producer")
               => work_queue[i].gen < work_queue[j].gen)
  /\ [][iterator' # iterator =>
          /\ InProducer
          /\ wpc' # wpc
          /\ cpc' = cpc /\ state' = state /\ ret' = ret]_vars
  /\ [][(wjob'.kind = "producer" /\ wjob.kind = "producer")
          => wjob' = wjob]_vars

\* The producer started by set_state restored the upstream iterator to the
\* snapshot after the producer it replaced had read ahead of it and left a
\* tuple in its abandoned queue.
OneProducerAtATimeWitness ==
  /\ restores = 1
  /\ wjob.kind = "producer" /\ wjob.gen = 2
  /\ wpc = "producer_loop"
  /\ iterator = snap
  /\ queues[1] # <<>>
  /\ queues[1][1].st > snap

\* C40: under fair scheduling the caller leaves close() and set_state(),
\* whose only loop is the drain of _stop_producer, and after close() the
\* producer job returns and the work thread leaves its loop, wherever the
\* producer was when close() was called.
CloseAndRestoreReturn ==
  /\ (cpc = "drain") ~> (cpc = "idle")
  /\ closed ~> (wpc \in {"none", "exited"} /\ wjob = NoJob)

\* close() has returned and the work thread has exited after a producer that
\* close() interrupted inside the upstream advance put its tuple into the
\* drained buffer of size 1.
CloseAndRestoreReturnWitness ==
  /\ closed
  /\ ret.kind = "closed"
  /\ wpc = "exited" /\ wjob = NoJob
  /\ prefetch_buffer_size = 1
  /\ \E g \in Gens : Len(queues[g]) = 1 /\ queues[g][1].el = UpElem(2)

\* ------------------------------------------------------- map-prefetch
\* Element i of a map dataset without absent elements.
DsElem(i) == 200 + i

\* All map datasets of length n: element i is DsElem(i) or absent.
Datasets(n) ==
  {[j \in 1..n |-> IF (j - 1) \in present THEN DsElem(j - 1) ELSE NoneVal] :
     present \in SUBSET (0..(n - 1))}

\* dataset[i] for i >= 0: indices past the epoch wrap around.
At(ds, i) == ds[(i % Len(ds)) + 1]

NoBuffer == [set |-> FALSE, q |-> <<>>]
Deque(q) == [set |-> TRUE, q |-> q]

\* Mutant of PfWindow: the window starts one index late.
PfWindowLate(n, B, idx) ==
  [j \in 1..(IF idx + B < n THEN B ELSE n - idx) |-> idx + j]

\* The indices submitted when the buffer is (re)built:
\* range(next_index, min(next_index + B, length)).
PfWindow(n, B, idx) ==
  [j \in 1..(IF idx + B < n THEN B ELSE n - idx) |-> idx + j - 1]

\* Mutant of PfRefill: the future appended after a pop is one index too far.
PfRefillSkip(n, B, idx, q) ==
  IF idx + B < n THEN Append(q, idx + B + 1) ELSE q

\* After popleft: submit index next_index + B when it is inside the epoch.
PfRefill(n, B, idx, q) ==
  IF idx + B < n THEN Append(q, idx + B) ELSE q

\* Mutant of PfDeliver: absent elements are returned whatever allow_nones is.
PfDeliverAll(allow, element) == TRUE

\* `if self._allow_nones or element is not None`.
PfDeliver(allow, element) == allow \/ element # NoneVal

\* PrefetchLazyDatasetIterator.__next__ on dataset ds with buffer size B,
\* from next_index idx and buffer buf: the loop runs until an element is
\* returned or next_index reaches the dataset length.  The result of a
\* future is the element at the index it was submitted for.
RECURSIVE PfNextFrom(_, _, _, _, _)
PfNextFrom(ds, B, allow, idx, buf) ==
  IF idx = Len(ds)
    THEN [kind |-> "StopIteration", val |-> NoneVal,
          next_index |-> idx, buffer |-> buf]
    ELSE
      LET q0 == IF buf.set /\ buf.q # <<>> THEN buf.q
                ELSE PfWindow(Len(ds), B, idx)
          q1 == PfRefill(Len(ds), B, idx, Tail(q0))
          element == IF B > 0 THEN At(ds, Head(q0)) ELSE At(ds, idx)
          buf1 == IF B > 0 THEN Deque(q1) ELSE buf
      IN IF PfDeliver(allow, element)
           THEN [kind |-> "elem", val |-> element,
                 next_index |-> idx + 1, buffer |-> buf1]
           ELSE PfNextFrom(ds, B, allow, idx + 1, buf1)

\* Everything next() returns up to end-of-stream.
RECURSIVE PfConsume(_, _, _, _, _)
PfConsume(ds, B, allow, idx, buf) ==
  LET r == PfNextFrom(ds, B, allow, idx, buf)
  IN IF r.kind = "StopIteration" THEN <<>>
     ELSE <<r.val>> \o PfConsume(ds, B, allow, r.next_index, r.buffer)

\* get_state: {"next_index": self._next_index}.
PfGetState(idx) == idx

\* set_state: the buffer is dropped when prefetching is on.
PfSetBuffer(B, buf) == IF B > 0 THEN NoBuffer ELSE buf

MFields ==
  /\ pf_next_index = 0
  /\ pf_buffer = NoBuffer
  /\ sync_next_index = 0
  /\ sync_ret = NoRet
  /\ pf_ret = NoRet
  /\ pf_prev = 0
  /\ pf_snap = NoneVal
  /\ pf_restored = FALSE

MInit ==
  /\ pf_dataset \in UNION {Datasets(n) : n \in 0..MaxDsLen}
  /\ pf_buffer_size \in 0..MaxBuf
  /\ pf_allow_nones \in BOOLEAN
  /\ pf_raises = {}
  /\ MFields

\* The map-prefetch iterator while another iterator is explored.
MIdle ==
  /\ pf_dataset = <<>>
  /\ pf_buffer_size = 0
  /\ pf_allow_nones = FALSE
  /\ pf_raises = {}
  /\ MFields

\* next() on the iterator and on its buffer-size-0 counterpart.
PfNext ==
  /\ LET r == PfNextFrom(pf_dataset, pf_buffer_size, pf_allow_nones,
                         pf_next_index, pf_buffer)
         z == PfNextFrom(pf_dataset, 0, pf_allow_nones, sync_next_index,
                         NoBuffer)
     IN /\ pf_next_index' = r.next_index
        /\ pf_buffer' = r.buffer
        /\ pf_ret' = [kind |-> r.kind, val |-> r.val]
        /\ sync_next_index' = z.next_index
        /\ sync_ret' = [kind |-> z.kind, val |-> z.val]
  /\ pf_prev' = pf_next_index
  /\ UNCHANGED <<pf_dataset, pf_buffer_size, pf_allow_nones, pf_raises, pf_snap,
                 pf_restored>>
  /\ UNCHANGED <<tvars, pvars, kvars, dvars>>

\* state() on both; the caller may keep the snapshot.
PfState ==
  /\ pf_ret' = [kind |-> "state", val |-> PfGetState(pf_next_index)]
  /\ sync_ret' = [kind |-> "state", val |-> PfGetState(sync_next_index)]
  /\ pf_snap' \in {pf_snap, PfGetState(pf_next_index)}
  /\ UNCHANGED <<pf_dataset, pf_buffer_size, pf_allow_nones, pf_raises, pf_next_index,
                 pf_buffer, sync_next_index, pf_prev, pf_restored>>
  /\ UNCHANGED <<tvars, pvars, kvars, dvars>>

\* set_state(snapshot) on both.
PfSetState ==
  /\ pf_snap # NoneVal
  /\ pf_next_index' = pf_snap
  /\ pf_buffer' = PfSetBuffer(pf_buffer_size, pf_buffer)
  /\ sync_next_index' = pf_snap
  /\ pf_ret' = [kind |-> "restored", val |-> pf_snap]
  /\ sync_ret' = [kind |-> "restored", val |-> pf_snap]
  /\ pf_restored' = TRUE
  /\ UNCHANGED <<pf_dataset, pf_buffer_size, pf_allow_nones, pf_raises, pf_prev,
                 pf_snap>>
  /\ UNCHANGED <<tvars, pvars, kvars, dvars>>

MNext ==
  \/ PfNext
  \/ PfState
  \/ PfSetState


\* --- a dataset whose __getitem__ raises at some indices.
\* PrefetchLazyDatasetIterator.__next__ as PfNextFrom, over a dataset whose
\* __getitem__ raises at the indices in raises.  With B > 0 the head future is
\* popped and the next one submitted before element.result() raises; with
\* B = 0 dataset[next_index] raises.  In both cases next_index is not
\* incremented.
RECURSIVE PfNextRaising(_, _, _, _, _, _)
PfNextRaising(ds, raises, B, allow, idx, buf) ==
  IF idx = Len(ds)
    THEN [kind |-> "StopIteration", val |-> NoneVal,
          next_index |-> idx, buffer |-> buf]
    ELSE
      LET q0 == IF buf.set /\ buf.q # <<>> THEN buf.q
                ELSE PfWindow(Len(ds), B, idx)
          q1 == PfRefill(Len(ds), B, idx, Tail(q0))
          at == IF B > 0 THEN Head(q0) ELSE idx
          buf1 == IF B > 0 THEN Deque(q1) ELSE buf
      IN IF at \in raises
           THEN [kind |-> "error", val |-> NoneVal, next_index |-> idx,
                 buffer |-> buf1]
         ELSE IF PfDeliver(allow, At(ds, at))
           THEN [kind |-> "elem", val |-> At(ds, at),
                 next_index |-> idx + 1, buffer |-> buf1]
           ELSE PfNextRaising(ds, raises, B, allow, idx + 1, buf1)

MInitRaising ==
  /\ pf_dataset \in UNION {Datasets(n) : n \in 0..MaxDsLen}
  /\ pf_buffer_size \in 0..MaxBuf
  /\ pf_allow_nones \in BOOLEAN
  /\ pf_raises \in SUBSET (0..(Len(pf_dataset) - 1))
  /\ MFields

\* next() on the iterator and on its buffer-size-0 counterpart, over the
\* dataset that raises.
PfNextRaises ==
  /\ LET r == PfNextRaising(pf_dataset, pf_raises, pf_buffer_size,
                            pf_allow_nones, pf_next_index, pf_buffer)
         z == PfNextRaising(pf_dataset, pf_raises, 0, pf_allow_nones,
                            sync_next_index, NoBuffer)
     IN /\ pf_next_index' = r.next_index
        /\ pf_buffer' = r.buffer
        /\ pf_ret' = [kind |-> r.kind, val |-> r.val]
        /\ sync_next_index' = z.next_index
        /\ sync_ret' = [kind |-> z.kind, val |-> z.val]
  /\ pf_prev' = pf_next_index
  /\ UNCHANGED <<pf_dataset, pf_buffer_size, pf_allow_nones, pf_raises,
                 pf_snap, pf_restored>>
  /\ UNCHANGED <<tvars, pvars, kvars, dvars>>

MNextRaising ==
  \/ PfNextRaises
  \/ PfState
  \/ PfSetState

\* --------------------------------------------------- map-prefetch claims
\* Everything next() returns from next_index idx and buffer buf up to
\* end-of-stream.
PfConsumeAll(idx, buf) ==
  PfConsume(pf_dataset, pf_buffer_size, pf_allow_nones, idx, buf)

\* C5: the state taken now, restored on a fresh iterator over the same
\* dataset (next_index 0, no buffer), yields when consumed to the end exactly
\* what this iterator yields from here on.
MapCheckpointSufficient ==
  PfConsumeAll(PfGetState(pf_next_index),
               PfSetBuffer(pf_buffer_size, NoBuffer))
    = PfConsumeAll(pf_next_index, pf_buffer)

\* The snapshot is taken mid-epoch while futures are in flight and the rest
\* of the epoch has an absent element and a present one.
MapCheckpointWitness ==
  /\ pf_ret.kind = "elem"
  /\ pf_buffer.set /\ Len(pf_buffer.q) >= 2
  /\ ~pf_allow_nones
  /\ \E i \in pf_next_index..(Len(pf_dataset) - 1) : At(pf_dataset, i) = NoneVal
  /\ PfConsumeAll(pf_next_index, pf_buffer) # <<>>

\* C6: with a buffer size B > 0 every call returns what the same call returns
\* on the iterator with B = 0 (elements, end-of-stream, states), and the two
\* states stay equal.
MapPrefetchEqualsSync ==
  /\ pf_ret = sync_ret
  /\ PfGetState(pf_next_index) = PfGetState(sync_next_index)

\* With B > 0, after a restore, a next() skipped an absent element and
\* returned the one after it.
MapPrefetchEqualsSyncWitness ==
  /\ pf_buffer_size > 0
  /\ pf_restored
  /\ pf_ret.kind = "elem"
  /\ pf_next_index > pf_prev + 1

\* C8: with allow_nones off no next() returns the absent element and the
\* elements it passes over are all absent, so every present element below the
\* length is returned; with allow_nones on next() returns the element at
\* next_index, absent exactly where the dataset's is.
SparseTransparency ==
  /\ pf_ret.kind = "elem" =>
       /\ pf_ret.val = At(pf_dataset, pf_next_index - 1)
       /\ pf_next_index <= Len(pf_dataset)
       /\ pf_allow_nones => pf_next_index = pf_prev + 1
       /\ ~pf_allow_nones =>
            /\ pf_ret.val # NoneVal
            /\ \A i \in pf_prev..(pf_next_index - 2) :
                 At(pf_dataset, i) = NoneVal
  /\ pf_ret.kind = "StopIteration" =>
       /\ pf_next_index = Len(pf_dataset)
       /\ pf_allow_nones => pf_prev = Len(pf_dataset)
       /\ ~pf_allow_nones =>
            \A i \in pf_prev..(Len(pf_dataset) - 1) :
              At(pf_dataset, i) = NoneVal

\* An absent element was passed over with allow_nones off and a buffer.
SparseTransparencyWitness ==
  /\ ~pf_allow_nones
  /\ pf_buffer_size > 0
  /\ pf_ret.kind = "elem"
  /\ pf_next_index = pf_prev + 2

\* C34, as the specification states it: with B > 0 the buffer, when it
\* exists, holds between calls the indices next_index, ...,
\* min(next_index + B, L) - 1 in that order, and set_state leaves no buffer.
PrefetchWindow ==
  pf_buffer_size > 0 =>
    /\ pf_buffer.set =>
         LET L == Len(pf_dataset)
             hi == IF pf_next_index + pf_buffer_size < L
                     THEN pf_next_index + pf_buffer_size ELSE L
         IN pf_buffer.q = [j \in 1..(hi - pf_next_index) |->
                             pf_next_index + j - 1]
    /\ pf_ret.kind = "restored" => ~pf_buffer.set

\* C37, as the specification states it: a next() that raises leaves
\* next_index at the index that raised, the following next() asks for the same index
\* again (and raises again, the dataset being a function of the index), and
\* the iterator returns and holds what its buffer-size-0 counterpart does, so
\* no index is skipped or delivered twice.
FailingNextChangesNothing ==
  /\ [](pf_ret.kind = "error" => pf_next_index \in pf_raises)
  /\ [][(/\ pf_ret.kind = "error"
         /\ pf_ret'.kind \in {"elem", "error", "StopIteration"})
          => /\ pf_ret'.kind = "error"
             /\ pf_next_index' = pf_next_index]_vars
  /\ [](/\ pf_ret = sync_ret
        /\ pf_next_index = sync_next_index)

\* --------------------------------------------------- process-prefetch
\* The parent pipeline is PrefetchLazyIterDataset over mp_source with
\* allow_nones off and the buffer size to_iter_dataset gives a range source.
WorkerBufferSize == 0

Workers == 0..(num_workers - 1)

\* parent.slice(slice(w, None, W)): the elements at indices w, w + W, ...
Sliced(ds, w, W) ==
  [j \in 1..(IF w >= Len(ds) THEN 0 ELSE (Len(ds) - w + W - 1) \div W)
     |-> ds[w + (j - 1) * W + 1]]

\* A map dataset and an iter dataset with its parents.
MapNode(ds) == [kind |-> "map", ds |-> ds]
IterNode(parents) == [kind |-> "iter", parents |-> parents]

\* Mutant of SetParentMapsSlice: iter-kind parents are left as they are.
SetParentMapsSliceShallow(node, w, W) ==
  IterNode([p \in DOMAIN node.parents |->
              IF node.parents[p].kind = "map"
                THEN MapNode(Sliced(node.parents[p].ds, w, W))
                ELSE node.parents[p]])

\* set_parent_maps_slice(slice(w, None, W)): map-kind parents are replaced by
\* their slices, iter-kind parents are rewritten recursively.
RECURSIVE SetParentMapsSlice(_, _, _)
SetParentMapsSlice(node, w, W) ==
  IterNode([p \in DOMAIN node.parents |->
              IF node.parents[p].kind = "map"
                THEN MapNode(Sliced(node.parents[p].ds, w, W))
                ELSE SetParentMapsSlice(node.parents[p], w, W)])

\* The parent of the process-prefetch dataset: the iter dataset
\* to_iter_dataset() builds over mp_source, or an iter dataset over it that
\* passes its elements and states through.
ParentPipeline ==
  IF mp_nested THEN IterNode(<<IterNode(<<MapNode(mp_source)>>)>>)
  ELSE IterNode(<<MapNode(mp_source)>>)

\* The map dataset an iter dataset reads.
RECURSIVE MapUnder(_)
MapUnder(node) ==
  IF node.kind = "map" THEN node.ds ELSE MapUnder(node.parents[1])

\* The map dataset worker w iterates after set_parent_maps_slice.
WorkerDataset(w) ==
  MapUnder(SetParentMapsSlice(ParentPipeline, w, num_workers))

\* next() of worker w's iterator at next_index idx.
WorkerNext(w, idx) ==
  PfNextFrom(WorkerDataset(w), WorkerBufferSize, FALSE, idx, NoBuffer)

\* `for _ in range(n): next(it)` from next_index idx.
RECURSIVE WorkerSkip(_, _, _)
WorkerSkip(w, idx, n) ==
  IF n = 0 THEN idx
  ELSE LET r == WorkerNext(w, idx)
       IN IF r.kind = "StopIteration" THEN r.next_index
          ELSE WorkerSkip(w, r.next_index, n - 1)

\* get_element_producer_fn up to its first yield: the worker's iterator is
\* restored to the recorded state and advanced past the elements consumed
\* after it.
WorkerStart(st, w) ==
  WorkerSkip(w, st.workers_state[w], st.iterations_to_skip[w])

\* The worker the pool starts from.
PoolFirst(st) == (st.last_worker_index + 1) % num_workers

\* The pool's next element: workers are asked in round-robin order, an
\* exhausted worker is passed over, and the stream ends when all are
\* exhausted.
RECURSIVE PoolNext(_, _, _)
PoolNext(idx, nxt, done) ==
  IF done = Workers
    THEN [kind |-> "StopIteration", val |-> NoneVal, worker |-> NoneVal,
          index |-> idx, next |-> nxt, done |-> done]
  ELSE IF nxt \in done
    THEN PoolNext(idx, (nxt + 1) % num_workers, done)
  ELSE LET r == WorkerNext(nxt, idx[nxt])
       IN IF r.kind = "StopIteration"
            THEN PoolNext(idx, (nxt + 1) % num_workers, done \cup {nxt})
            ELSE [kind |-> "elem", val |-> r.val, worker |-> nxt,
                  index |-> [idx EXCEPT ![nxt] = r.next_index],
                  next |-> (nxt + 1) % num_workers, done |-> done]

\* Mutant of MpRecord: the counter is not reset when a state arrives.
MpRecordNoReset(st, w, carried, wstate) ==
  [st EXCEPT
     !.last_worker_index = w,
     !.iterations_to_skip[w] = @ + 1,
     !.workers_state[w] = IF carried THEN wstate ELSE @]

\* Mutant of MpRecord: the counters of all workers are reset or incremented.
MpRecordAllWorkers(st, w, carried, wstate) ==
  [st EXCEPT
     !.last_worker_index = w,
     !.iterations_to_skip = [v \in DOMAIN @ |-> IF carried THEN 0 ELSE @[v] + 1],
     !.workers_state[w] = IF carried THEN wstate ELSE @]

\* __next__ after the pool returned an element of worker w: the tuple carries
\* the worker's state wstate or None.
MpRecord(st, w, carried, wstate) ==
  [st EXCEPT
     !.last_worker_index = w,
     !.iterations_to_skip[w] = IF carried THEN 0 ELSE @ + 1,
     !.workers_state[w] = IF carried THEN wstate ELSE @]

\* The state __init__ builds: every worker at the parent's initial state.
MpInitialState ==
  [workers_state |-> [w \in Workers |-> PfGetState(0)],
   iterations_to_skip |-> [w \in Workers |-> 0],
   last_worker_index |-> -1]

NoSnap == [set |-> FALSE, st |-> <<>>, at |-> 0, dirty |-> FALSE]

PFields ==
  /\ mp_state = MpInitialState
  /\ mp_started = FALSE
  /\ wk_index = [w \in Workers |-> 0]
  /\ pool_next = 0
  /\ pool_done = {}
  /\ mp_ret = NoRet
  /\ mp_ref = <<>>
  /\ mp_ref_ended = FALSE
  /\ mp_pos = 0
  /\ mp_snap = NoSnap
  /\ mp_alias = FALSE
  /\ mp_restores = 0
  /\ mp_clean = FALSE

PInit ==
  /\ mp_source \in UNION {Datasets(n) : n \in 0..MaxDsLen}
  /\ num_workers \in 1..MaxWorkers
  /\ mp_nested \in BOOLEAN
  /\ PFields

\* The process-prefetch iterator while another iterator is explored.
PIdle ==
  /\ mp_source = <<>>
  /\ num_workers = 1
  /\ mp_nested = FALSE
  /\ PFields

\* __next__: the pool is created from self._state when there is none; the
\* element's tuple carries the worker's state when the worker last recorded
\* one at least _RECORD_STATE_INTERVAL_S ago.
MpNext ==
  \E carried \in BOOLEAN :
    LET idx0 == IF mp_started THEN wk_index
                ELSE [w \in Workers |-> WorkerStart(mp_state, w)]
        nxt0 == IF mp_started THEN pool_next ELSE PoolFirst(mp_state)
        done0 == IF mp_started THEN pool_done ELSE {}
        r == PoolNext(idx0, nxt0, done0)
        st1 == MpRecord(mp_state, r.worker, carried,
                        PfGetState(r.index[r.worker]))
    IN /\ mp_started' = TRUE
       /\ wk_index' = r.index
       /\ pool_next' = r.next
       /\ pool_done' = r.done
       /\ mp_ret' = [kind |-> r.kind, val |-> r.val]
       /\ IF r.kind = "StopIteration"
            THEN /\ carried
                 /\ mp_ref_ended' = (mp_ref_ended \/ mp_restores = 0)
                 /\ UNCHANGED <<mp_state, mp_ref, mp_pos, mp_snap>>
            ELSE /\ mp_state' = st1
                 /\ mp_pos' = mp_pos + 1
                 /\ mp_ref' = IF mp_restores = 0 THEN Append(mp_ref, r.val)
                              ELSE mp_ref
                 /\ mp_snap' = IF mp_alias
                                 THEN [mp_snap EXCEPT !.st = st1,
                                                      !.dirty = TRUE]
                                 ELSE mp_snap
                 /\ UNCHANGED mp_ref_ended
       /\ UNCHANGED <<mp_source, num_workers, mp_nested, mp_alias, mp_restores,
                      mp_clean>>
       /\ UNCHANGED <<tvars, mvars, kvars, dvars>>

\* get_state: a deep copy of self._state; the caller may keep it.
MpGetState ==
  /\ mp_ret' = [kind |-> "state", val |-> mp_pos]
  /\ \/ UNCHANGED <<mp_snap, mp_alias>>
     \/ /\ mp_snap' = [set |-> TRUE, st |-> mp_state, at |-> mp_pos,
                       dirty |-> (mp_restores > 0 /\ ~mp_clean)]
        /\ mp_alias' = FALSE
  /\ UNCHANGED <<mp_source, num_workers, mp_nested, mp_state, mp_started, wk_index,
                 pool_next, pool_done, mp_ref, mp_ref_ended, mp_pos,
                 mp_restores, mp_clean>>
  /\ UNCHANGED <<tvars, mvars, kvars, dvars>>

\* set_state(S): self._state becomes the caller's record itself and the pool
\* is dropped.
MpSetState ==
  /\ mp_snap.set
  /\ mp_restores < MaxMpRestores
  /\ mp_state' = mp_snap.st
  /\ mp_alias' = TRUE
  /\ mp_started' = FALSE
  /\ mp_pos' = mp_snap.at
  /\ mp_clean' = ~mp_snap.dirty
  /\ mp_restores' = mp_restores + 1
  /\ mp_ret' = [kind |-> "restored", val |-> mp_snap.at]
  /\ UNCHANGED <<mp_source, num_workers, mp_nested, wk_index, pool_next, pool_done,
                 mp_ref, mp_ref_ended, mp_snap>>
  /\ UNCHANGED <<tvars, mvars, kvars, dvars>>

PNext ==
  \/ MpNext
  \/ MpGetState
  \/ MpSetState


\* ----------------------------------------------- process-prefetch claims
\* What the parent's own iterator delivers without the wrapper.
ParentSequence == PfConsume(mp_source, WorkerBufferSize, FALSE, 0, NoBuffer)

\* C3: after restoring a snapshot that state() returned, the next() calls
\* return the elements the uninterrupted run returned after the snapshot
\* point, in the same order, and end where it ended, whichever elements
\* carried a recorded worker state.
MpRestoreReplays ==
  (mp_restores > 0 /\ mp_clean) =>
    /\ (mp_ret.kind = "elem" /\ mp_pos <= Len(mp_ref)) =>
         mp_ret.val = mp_ref[mp_pos]
    /\ mp_ref_ended => mp_pos <= Len(mp_ref)
    /\ (mp_ret.kind = "StopIteration" /\ mp_ref_ended) =>
         mp_pos = Len(mp_ref)

\* A restored run returned its second element after a snapshot taken while a
\* worker had elements to skip, and the uninterrupted run had gone that far.
MpRestoreWitness ==
  /\ mp_restores > 0 /\ mp_clean
  /\ mp_ret.kind = "elem"
  /\ mp_snap.set /\ mp_pos >= mp_snap.at + 2
  /\ mp_pos <= Len(mp_ref)
  /\ num_workers > 1
  /\ \E w \in Workers : mp_snap.st.iterations_to_skip[w] > 0
  /\ \E w \in Workers : mp_snap.st.workers_state[w] > 0

\* C7: the sequence delivered through the workers in round-robin order is the
\* sequence the parent's own iterator delivers.
MpOrderPreserved ==
  mp_restores = 0 =>
    /\ Len(mp_ref) <= Len(ParentSequence)
    /\ mp_ref = SubSeq(ParentSequence, 1, Len(mp_ref))
    /\ mp_ref_ended => mp_ref = ParentSequence

\* C26: the element a worker delivers is the source element at index
\* w + j * W, where j counts the indices the worker has read before it, so
\* worker w reads the indices congruent to w modulo W in increasing order and
\* no index is read by two workers; at end-of-stream the workers together
\* have delivered every present element of the source once.
WorkersReadDisjointShards ==
  /\ mp_ret.kind = "elem" =>
       LET w == mp_state.last_worker_index
           i == mp_ret.val - DsElem(0)
       IN /\ i % num_workers = w
          /\ i = w + (wk_index[w] - 1) * num_workers
          /\ mp_source[i + 1] = mp_ret.val
  /\ (mp_restores = 0 /\ mp_ref_ended) =>
       /\ \A i \in DOMAIN mp_source :
            mp_source[i] # NoneVal =>
              \E k \in DOMAIN mp_ref : mp_ref[k] = mp_source[i]
       /\ \A k, l \in DOMAIN mp_ref : mp_ref[k] = mp_ref[l] => k = l

\* Behind a nested parent, the first of two workers delivered its second
\* element, the source element at index 2, after the second worker delivered
\* the element at index 1.
WorkersReadDisjointShardsWitness ==
  /\ mp_nested
  /\ num_workers = 2
  /\ mp_ret = [kind |-> "elem", val |-> DsElem(2)]
  /\ mp_state.last_worker_index = 0
  /\ wk_index = [w \in Workers |-> IF w = 0 THEN 2 ELSE 1]
  /\ mp_pos = 3

\* The present elements of worker w's dataset at index idx and after it.
WorkerRemaining(w, idx) ==
  Cardinality({i \in idx..(Len(WorkerDataset(w)) - 1) :
                 WorkerDataset(w)[i + 1] # NoneVal})

\* A next() that returned an element.
MpNextReturned == mp_ret'.kind = "elem" /\ mp_pos' = mp_pos + 1

\* C31: for every worker the recorded state advanced by the recorded number
\* of iterations is the position after the last element consumed from that
\* worker, and the skip stays within the worker's sequence; a next() either
\* stores the worker's state and zeroes its counter or increments its counter,
\* and leaves the records of the other workers alone.
MpBookkeeping ==
  /\ [](\A w \in Workers :
          /\ mp_state.iterations_to_skip[w]
               <= WorkerRemaining(w, mp_state.workers_state[w])
          /\ mp_started => WorkerStart(mp_state, w) = wk_index[w]
          /\ (mp_ret.kind = "elem" /\ w = mp_state.last_worker_index) =>
               WorkerDataset(w)[WorkerStart(mp_state, w)] = mp_ret.val)
  /\ [][MpNextReturned =>
          LET w == mp_state'.last_worker_index
              skip == mp_state.iterations_to_skip
              rec == mp_state.workers_state
          IN /\ w \in Workers
             /\ \/ /\ skip'[w] = 0
                   /\ rec'[w] = wk_index'[w]
                \/ /\ skip'[w] = skip[w] + 1
                   /\ rec'[w] = rec[w]
             /\ \A v \in Workers \ {w} :
                  skip'[v] = skip[v] /\ rec'[v] = rec[v]]_vars

\* Of two workers, one has two elements to skip after its recorded state and
\* the other has a recorded state past the start and nothing to skip.
MpBookkeepingWitness ==
  /\ num_workers = 2
  /\ mp_started
  /\ mp_ret.kind = "elem"
  /\ mp_state.iterations_to_skip[0] = 2
  /\ mp_state.workers_state[1] > 0
  /\ mp_state.iterations_to_skip[1] = 0

\* The worker whose shard holds the element val: its source index modulo W.
SupplierOf(val) == (val - DsElem(0)) % num_workers

SnapshotNeverChanges ==
  /\ [][(mp_snap.set /\ mp_ret'.kind \in {"elem", "StopIteration"})
          => mp_snap'.st = mp_snap.st]_vars
  /\ [](mp_restores > 0 =>
          /\ (mp_ret.kind = "elem" /\ mp_pos <= Len(mp_ref)) =>
               mp_ret.val = mp_ref[mp_pos]
          /\ (mp_ret.kind = "StopIteration" /\ mp_ref_ended) =>
               mp_pos = Len(mp_ref))

\* ------------------------------------------------------------- packing
\* SingleBinPackLazyIterDataset and FirstFitPackLazyIterDataset over elements
\* with two features ("inputs", "targets").
Features == 1..2

Min(a, b) == IF a <= b THEN a ELSE b

\* The p-th value (p >= 1) of feature f of the e-th upstream element: values
\* are non-zero and pairwise different, so a record shows where each came from.
Token(e, f, p) == 100 * e + 10 * f + p

\* Feature f of the e-th upstream element, of the lengths lens.
ElemSeq(lens, e, f) == [p \in 1..lens[f] |-> Token(e, f, p)]

Shapes == [Features -> 1..MaxElemLen]
Sources(n) == [1..n -> Shapes]
Targets == [Features -> 1..MaxTarget]

\* One feature of a bin: the three zero-initialised arrays of length t and
\* the number of cells used.
EmptyFeature(t) ==
  [vals |-> [i \in 1..t |-> 0], segs |-> [i \in 1..t |-> 0],
   poss |-> [i \in 1..t |-> 0], used |-> 0]

\* A bin: its features and the number of elements added to it.
EmptyBin(T) == [feat |-> [f \in Features |-> EmptyFeature(T[f])], n |-> 0]

\* The number of values copied into a feature with `used` cells used out of
\* t: the element is truncated to the remaining capacity.
Copied(used, t, len) == Min(len, t - used)

\* Mutant of CopiedValue: the last k values are kept instead of the first.
CopiedValueTail(seq, j, k) == seq[Len(seq) - k + j]

\* The value written to the j-th of the k cells an element gets.
CopiedValue(seq, j, k) == seq[j]

\* Mutant of SegPosition: positions count from the start of the record.
SegPositionAbs(i, used) == i - 1

\* The position written to cell i of a segment that starts after `used`
\* cells.
SegPosition(i, used) == i - used - 1

\* seq is written behind the used cells of feature b with segment id id.
AddFeature(b, t, seq, id) ==
  LET k == Copied(b.used, t, Len(seq))
      new(i) == b.used < i /\ i <= b.used + k
  IN [vals |-> [i \in 1..t |-> IF new(i)
                                 THEN CopiedValue(seq, i - b.used, k)
                                 ELSE b.vals[i]],
      segs |-> [i \in 1..t |-> IF new(i) THEN id ELSE b.segs[i]],
      poss |-> [i \in 1..t |-> IF new(i) THEN SegPosition(i, b.used)
                                         ELSE b.poss[i]],
      used |-> b.used + k]

\* The e-th element is added to the bin as its next segment.
AddElement(bin, T, lens, e) ==
  [feat |-> [f \in Features |->
               AddFeature(bin.feat[f], T[f], ElemSeq(lens, e, f), bin.n + 1)],
   n |-> bin.n + 1]

\* Mutant of StartBin: the element that did not fit is dropped.
StartBinEmpty(T, lens, e) == EmptyBin(T)

\* A new bin that contains the e-th element.
StartBin(T, lens, e) == AddElement(EmptyBin(T), T, lens, e)

\* The output record of a bin: per feature f the arrays f, f_segment_ids and
\* f_positions, tail-padded with 0.
PackedRecord(bin) ==
  [f \in Features |-> [vals |-> bin.feat[f].vals, segs |-> bin.feat[f].segs,
                       poss |-> bin.feat[f].poss]]

\* Feature f of the element has room in the bin.
FitsFeature(bin, T, lens, f) == bin.feat[f].used + lens[f] <= T[f]

\* What a packer did with one element: the element, the bin it looked at
\* (cells used per feature, elements held), the row, the decision, and whether
\* values were lost.
LogEntry(e, bin, T, lens, row, act, into) ==
  [e |-> e, used |-> [f \in Features |-> bin.feat[f].used], n |-> bin.n,
   row |-> row, act |-> act,
   trunc |-> \E f \in Features : ~FitsFeature(into, T, lens, f)]

\* Mutant of FullyPacked: every feature has to be at its target length.
FullyPackedEvery(T, lens) == \A f \in Features : lens[f] = T[f]

\* Single-bin packer: the element is already fully packed on a feature
\* (packing_test.py: "First element was already fully packed on 'inputs'").
FullyPacked(T, lens) == \E f \in Features : lens[f] = T[f]

\* Mutant of SbFits: every feature has to fit.
SbFitsEvery(bin, T, lens) ==
  \A f \in Features : FitsFeature(bin, T, lens, f)

\* Single-bin packer: the element goes into the current bin.  In
\* packing_test.py an element whose "inputs" fit and whose "targets" do not is
\* appended with "targets" truncated ("50 gets dropped").
SbFits(bin, T, lens) ==
  \E f \in Features : FitsFeature(bin, T, lens, f)

\* Mutant of SbFlush: the bin in progress is lost at exhaustion.
SbFlushNone(T, pos, bin, log) ==
  [kind |-> "StopIteration", val |-> NoneVal, pos |-> pos,
   rows |-> <<EmptyBin(T)>>, queue |-> <<>>, log |-> log]

\* Single-bin packer at input exhaustion: a bin that holds an element is
\* returned as the final record and reset; an empty bin ends the stream.
SbFlush(T, pos, bin, log) ==
  IF bin.n > 0
    THEN [kind |-> "elem", val |-> PackedRecord(bin), pos |-> pos,
          rows |-> <<EmptyBin(T)>>, queue |-> <<>>, log |-> log]
    ELSE [kind |-> "StopIteration", val |-> NoneVal, pos |-> pos,
          rows |-> <<bin>>, queue |-> <<>>, log |-> log]

\* Single-bin packer, __next__: elements are taken from the upstream iterator
\* until a record is complete.
RECURSIVE SbNext(_, _, _, _, _)
SbNext(T, src, pos, bin, log) ==
  IF pos = Len(src)
    THEN SbFlush(T, pos, bin, log)
    ELSE
      LET e == pos + 1
          lens == src[e]
          entry(act, into) == LogEntry(e, bin, T, lens, 1, act, into)
      IN IF FullyPacked(T, lens)
           THEN [kind |-> "elem",
                 val |-> PackedRecord(StartBin(T, lens, e)),
                 pos |-> e, rows |-> <<bin>>, queue |-> <<>>,
                 log |-> Append(log, entry("own", EmptyBin(T)))]
         ELSE IF bin.n = 0 \/ SbFits(bin, T, lens)
           THEN SbNext(T, src, e, AddElement(bin, T, lens, e),
                       Append(log, entry("append", bin)))
         ELSE [kind |-> "elem", val |-> PackedRecord(bin), pos |-> e,
               rows |-> <<StartBin(T, lens, e)>>, queue |-> <<>>,
               log |-> Append(log, entry("new", EmptyBin(T)))]

\* First-fit packer: every feature of the element has room in the bin.
FfFits(bin, T, lens) == \A f \in Features : FitsFeature(bin, T, lens, f)

\* Mutant of FirstFit: the last bin the element fits into.
LastFit(rows, T, lens) ==
  LET S == {r \in DOMAIN rows : FfFits(rows[r], T, lens)}
  IN IF S = {} THEN 0 ELSE CHOOSE r \in S : \A q \in S : r >= q

\* The first bin the element fits into, 0 when there is none.
FirstFit(rows, T, lens) ==
  LET S == {r \in DOMAIN rows : FfFits(rows[r], T, lens)}
  IN IF S = {} THEN 0 ELSE CHOOSE r \in S : \A q \in S : r <= q

\* K empty bins.
RECURSIVE EmptyRows(_, _)
EmptyRows(T, K) ==
  IF K = 0 THEN <<>> ELSE Append(EmptyRows(T, K - 1), EmptyBin(T))

\* Mutant of Completed: the bins are read from the last to the first.
RECURSIVE CompletedReversed(_)
CompletedReversed(rows) ==
  IF rows = <<>> THEN <<>>
  ELSE CompletedReversed(Tail(rows))
         \o (IF Head(rows).n > 0 THEN <<PackedRecord(Head(rows))>> ELSE <<>>)

\* The records of a completed group of bins: the bins that hold an element,
\* in bin order (packing_test.py, test_pack_sequences_length_3).
RECURSIVE Completed(_)
Completed(rows) ==
  IF rows = <<>> THEN <<>>
  ELSE (IF Head(rows).n > 0 THEN <<PackedRecord(Head(rows))>> ELSE <<>>)
         \o Completed(Tail(rows))

\* shuffle_bins: the order in which the n records of a completed group are
\* returned.  The packer takes no seed, so the order depends on n only; in
\* packing_test.py two records stay in place (test_checkpointing) and three
\* records come out as third, first, second
\* (test_pack_sequences_length_shuffle_bins, with 3 and with 5 bins).
ShuffleOrder(n) ==
  IF n <= 2 THEN [i \in 1..n |-> i]
  ELSE [i \in 1..n |-> IF i = 1 THEN n ELSE i - 1]

\* Mutant of Shuffled: the record moved to the front replaces the first.
ShuffledOverFirst(recs) ==
  [i \in 1..Len(recs) |->
     recs[ShuffleOrder(Len(recs))[IF i = 2 THEN 1 ELSE i]]]

\* The records of a completed group in shuffled order.
Shuffled(recs) ==
  [i \in 1..Len(recs) |-> recs[ShuffleOrder(Len(recs))[i]]]

\* The records a completed group of bins puts on the output queue.
Emitted(rows, shuffle_bins) ==
  IF shuffle_bins THEN Shuffled(Completed(rows)) ELSE Completed(rows)

\* What the first-fit packer did with one element (e = 0: the flush at input
\* exhaustion): a LogEntry and the bins it looked at.
FfLogEntry(e, rows, T, lens, row, act, into) ==
  LET en == LogEntry(e, rows[row], T, lens, row, act, into)
  IN [e |-> e, used |-> en.used, n |-> en.n, row |-> row, act |-> act,
      trunc |-> en.trunc, bins |-> rows]

\* Mutant of FfPlace: the element that fits nowhere takes the place of the
\* last bin and the other bins stay.
FfPlaceLast(rows, T, lens, e) ==
  [rows EXCEPT ![Len(rows)] = StartBin(T, lens, e)]

\* The bins after an element fitted in none of them: the group is completed,
\* all bins are reset and the element starts the first bin.
FfPlace(rows, T, lens, e) ==
  <<StartBin(T, lens, e)>> \o EmptyRows(T, Len(rows) - 1)

\* First-fit packer, __next__: a completed record is returned when there is
\* one; otherwise elements are placed until one fits nowhere or the upstream
\* iterator ends, which completes the group of bins.
RECURSIVE FfNext(_, _, _, _, _, _, _)
FfNext(T, src, pos, rows, queue, log, shuffle_bins) ==
  IF queue # <<>>
    THEN [kind |-> "elem", val |-> Head(queue), pos |-> pos, rows |-> rows,
          queue |-> Tail(queue), log |-> log]
  ELSE IF pos = Len(src)
    THEN IF \E r \in DOMAIN rows : rows[r].n > 0
           THEN FfNext(T, src, pos, EmptyRows(T, Len(rows)),
                       Emitted(rows, shuffle_bins),
                       Append(log, FfLogEntry(0, rows, T, T, 1, "flush",
                                              EmptyBin(T))),
                       shuffle_bins)
           ELSE [kind |-> "StopIteration", val |-> NoneVal, pos |-> pos,
                 rows |-> rows, queue |-> queue, log |-> log]
  ELSE
    LET e == pos + 1
        lens == src[e]
        r == FirstFit(rows, T, lens)
    IN IF r # 0
         THEN FfNext(T, src, e,
                     [rows EXCEPT ![r] = AddElement(@, T, lens, e)], queue,
                     Append(log, FfLogEntry(e, rows, T, lens, r, "append",
                                            rows[r])),
                     shuffle_bins)
         ELSE FfNext(T, src, e, FfPlace(rows, T, lens, e),
                     Emitted(rows, shuffle_bins),
                     Append(log, FfLogEntry(e, rows, T, lens, 1, "new",
                                            EmptyBin(T))),
                     shuffle_bins)

\* Mutant of PkGetState: the in-progress bins are left out of the state.
PkGetStateNoBins(T, pos, rows, queue) ==
  [pos |-> pos, rows |-> EmptyRows(T, Len(rows)), queue |-> queue]

\* get_state: the upstream iterator's state, the in-progress bins and the
\* records waiting to be returned.
PkGetState(T, pos, rows, queue) ==
  [pos |-> pos, rows |-> rows, queue |-> queue]

NoPkSnap == [set |-> FALSE, st |-> <<>>, at |-> 0]

KFields ==
  /\ pk_pos = 0
  /\ pk_rows = EmptyRows(pk_T, pk_K)
  /\ pk_queue = <<>>
  /\ pk_ret = NoRet
  /\ pk_prev = EmptyRows(pk_T, pk_K)
  /\ pk_log = <<>>
  /\ pk_trunc = FALSE
  /\ pk_out = <<>>
  /\ pk_ended = FALSE
  /\ pk_step = 0
  /\ pk_snap = NoPkSnap
  /\ pk_restores = 0

KInit ==
  /\ pk_kind \in {"single_bin", "first_fit"}
  /\ pk_T \in Targets
  /\ pk_K \in (IF pk_kind = "single_bin" THEN {1} ELSE 1..MaxBins)
  /\ pk_shuffle \in (IF pk_kind = "single_bin" THEN {FALSE} ELSE BOOLEAN)
  /\ pk_src \in UNION {Sources(n) : n \in 0..MaxSrcLen}
  /\ KFields

\* The packers while another iterator is explored.
KIdle ==
  /\ pk_kind = "single_bin"
  /\ pk_T = [f \in Features |-> 1]
  /\ pk_K = 1
  /\ pk_shuffle = FALSE
  /\ pk_src = <<>>
  /\ KFields

\* next() of the packer's iterator.
PkNext ==
  /\ LET r == IF pk_kind = "single_bin"
                THEN SbNext(pk_T, pk_src, pk_pos, pk_rows[1], <<>>)
                ELSE FfNext(pk_T, pk_src, pk_pos, pk_rows, pk_queue, <<>>,
                            pk_shuffle)
     IN /\ pk_pos' = r.pos
        /\ pk_rows' = r.rows
        /\ pk_queue' = r.queue
        /\ pk_ret' = [kind |-> r.kind, val |-> r.val]
        /\ pk_log' = r.log
        /\ pk_trunc' = (pk_trunc \/ \E i \in DOMAIN r.log : r.log[i].trunc)
        /\ pk_out' = IF pk_restores = 0 /\ r.kind = "elem"
                       THEN Append(pk_out, r.val) ELSE pk_out
        /\ pk_ended' = (pk_ended
                          \/ (pk_restores = 0 /\ r.kind = "StopIteration"))
        /\ pk_step' = IF r.kind = "elem" THEN pk_step + 1 ELSE pk_step
  /\ pk_prev' = pk_rows
  /\ UNCHANGED <<pk_kind, pk_T, pk_K, pk_src, pk_snap, pk_restores,
                 pk_shuffle>>
  /\ UNCHANGED <<tvars, mvars, pvars, dvars>>

\* state(): the caller may keep the snapshot.
PkState ==
  /\ pk_ret' = [kind |-> "state", val |-> pk_step]
  /\ pk_snap' \in {pk_snap,
                   [set |-> TRUE,
                    st |-> PkGetState(pk_T, pk_pos, pk_rows, pk_queue),
                    at |-> pk_step]}
  /\ UNCHANGED <<pk_kind, pk_T, pk_K, pk_src, pk_pos, pk_rows, pk_queue,
                 pk_prev, pk_log, pk_trunc, pk_out, pk_ended, pk_step,
                 pk_restores, pk_shuffle>>
  /\ UNCHANGED <<tvars, mvars, pvars, dvars>>

\* set_state(snapshot).
PkSetState ==
  /\ pk_snap.set
  /\ pk_restores < MaxPkRestores
  /\ pk_pos' = pk_snap.st.pos
  /\ pk_rows' = pk_snap.st.rows
  /\ pk_queue' = pk_snap.st.queue
  /\ pk_prev' = pk_snap.st.rows
  /\ pk_log' = <<>>
  /\ pk_step' = pk_snap.at
  /\ pk_ret' = [kind |-> "restored", val |-> pk_snap.at]
  /\ pk_restores' = pk_restores + 1
  /\ UNCHANGED <<pk_kind, pk_T, pk_K, pk_src, pk_trunc, pk_out, pk_ended,
                 pk_snap, pk_shuffle>>
  /\ UNCHANGED <<tvars, mvars, pvars, dvars>>

KNext ==
  \/ PkNext
  \/ PkState
  \/ PkSetState

\* --------------------------------------------------------- packing claims
\* The upstream element a value came from.
TokenElem(v) == v \div 100

\* The cells of a feature that carry segment id s.
SegCells(rf, s) == {i \in DOMAIN rf.segs : rf.segs[i] = s}

SegStart(rf, s) == CHOOSE i \in SegCells(rf, s) : \A j \in SegCells(rf, s) : i <= j

\* The values and the positions of segment s, read from its first cell on.
SegVals(rf, s) ==
  IF SegCells(rf, s) = {} THEN <<>>
  ELSE [p \in 1..Cardinality(SegCells(rf, s)) |->
          rf.vals[SegStart(rf, s) + p - 1]]

SegPoss(rf, s) ==
  IF SegCells(rf, s) = {} THEN <<>>
  ELSE [p \in 1..Cardinality(SegCells(rf, s)) |->
          rf.poss[SegStart(rf, s) + p - 1]]

\* The values of element e in a feature, in cell order.
ElemCells(rf, e) ==
  {i \in DOMAIN rf.vals : rf.segs[i] # 0 /\ TokenElem(rf.vals[i]) = e}

\* The elements with a value in a record.
RecElems(r) ==
  UNION {{TokenElem(r[f].vals[i]) : i \in {j \in DOMAIN r[f].segs :
                                             r[f].segs[j] # 0}} :
         f \in Features}

RECURSIVE RowRecords(_)
RowRecords(rows) ==
  IF rows = <<>> THEN <<>>
  ELSE <<PackedRecord(Head(rows))>> \o RowRecords(Tail(rows))

\* Every record of the run: returned, waiting to be returned, in progress.
Held == pk_out \o pk_queue \o RowRecords(pk_rows)

\* Element e is one whole segment of record r: under one segment id, every
\* feature holds the element's sequence with positions 0, 1, ...
WholeSegment(r, e) ==
  \E s \in 1..Len(pk_src) :
    \A f \in Features :
      /\ SegVals(r[f], s) = ElemSeq(pk_src[e], e, f)
      /\ SegPoss(r[f], s) = [p \in 1..pk_src[e][f] |-> p - 1]
      /\ ElemCells(r[f], e) = SegCells(r[f], s)

\* C15: while no element has been truncated, every element taken from the
\* upstream iterator is one whole segment of exactly one record (the same
\* record and segment id for all its features), records hold nothing else,
\* and at end-of-stream every element is in a returned record.
PackingConservation ==
  (pk_restores = 0 /\ ~pk_trunc) =>
    /\ \A e \in 1..pk_pos :
         \E h \in DOMAIN Held :
           /\ WholeSegment(Held[h], e)
           /\ \A g \in DOMAIN Held \ {h} : e \notin RecElems(Held[g])
    /\ \A h \in DOMAIN Held : RecElems(Held[h]) \subseteq 1..pk_pos
    /\ pk_ret.kind = "StopIteration" =>
         /\ pk_pos = Len(pk_src)
         /\ \A e \in 1..pk_pos : \E h \in DOMAIN pk_out : e \in RecElems(pk_out[h])

\* The first-fit packer with two bins reached end-of-stream after three
\* untruncated elements, one record holding two of them.
PackingConservationWitness ==
  /\ pk_kind = "first_fit" /\ pk_K = 2
  /\ pk_restores = 0 /\ ~pk_trunc
  /\ pk_ret.kind = "StopIteration"
  /\ pk_pos = 3
  /\ Len(pk_out) = 2
  /\ \E h \in DOMAIN pk_out : Cardinality(RecElems(pk_out[h])) = 2

\* A feature of a record is well-formed for the target length t.
WellFormedFeature(rf, t) ==
  LET u == Cardinality({i \in DOMAIN rf.segs : rf.segs[i] # 0})
  IN /\ Len(rf.vals) = t /\ Len(rf.segs) = t /\ Len(rf.poss) = t
     /\ \A i \in 1..t :
          IF i <= u
            THEN /\ rf.segs[i] >= 1
                 /\ rf.poss[i] = i - SegStart(rf, rf.segs[i])
            ELSE rf.segs[i] = 0 /\ rf.vals[i] = 0 /\ rf.poss[i] = 0
     /\ u >= 1 => rf.segs[1] = 1
     /\ \A i \in 1..(u - 1) : rf.segs[i + 1] \in {rf.segs[i], rf.segs[i] + 1}

\* C16: in every record a packer returns, each feature's three arrays have
\* the target length, the segment ids are 1, 2, ... without gaps over the used
\* prefix and 0 behind it, each position counts from the start of its
\* segment, and padded values and positions are 0.
RecordsWellFormed ==
  pk_ret.kind = "elem" =>
    \A f \in Features : WellFormedFeature(pk_ret.val[f], pk_T[f])

\* The single-bin packer returned a record with two segments and padding in
\* one feature and two segments and no padding in the other.
RecordsWellFormedWitness ==
  /\ pk_kind = "single_bin"
  /\ pk_ret.kind = "elem"
  /\ \E f \in Features :
       /\ pk_ret.val[f].segs[pk_T[f]] = 0
       /\ \E i \in DOMAIN pk_ret.val[f].segs : pk_ret.val[f].segs[i] = 2
  /\ \E f \in Features : pk_ret.val[f].segs[pk_T[f]] = 2

AfterNext == pk_ret.kind \in {"elem", "StopIteration"}

\* Element e has some feature whose length is the target length.
AtTarget(e) == \E f \in Features : pk_src[e][f] = pk_T[f]

\* The elements with a value in the in-progress bins.
BinElems(rows) == UNION {RecElems(RowRecords(rows)[r]) : r \in DOMAIN rows}

\* C18 (single-bin): an element that has some feature at its target length
\* is returned by the next() that took it, alone in its record (segment 1,
\* other features padded), while the bin buffered before it keeps its
\* elements; such an element is never put into the bin.
FullElementJumpsAhead ==
  pk_kind = "single_bin" =>
    /\ \A e \in BinElems(pk_rows) : ~AtTarget(e)
    /\ \A i \in DOMAIN pk_log :
         (AfterNext /\ AtTarget(pk_log[i].e)) =>
           /\ i = Len(pk_log)
           /\ pk_ret = [kind |-> "elem",
                        val |-> PackedRecord(StartBin(pk_T,
                                               pk_src[pk_log[i].e],
                                               pk_log[i].e))]
           /\ RecElems(pk_ret.val) = {pk_log[i].e}
           /\ BinElems(pk_prev) \subseteq BinElems(pk_rows)
           /\ pk_rows[1].n = pk_prev[1].n + Len(pk_log) - 1

\* A full element was returned ahead of a buffered bin, and the bin then
\* took a later element and was returned with both.
FullElementJumpsAheadWitness ==
  /\ pk_kind = "single_bin"
  /\ pk_ret.kind = "elem"
  /\ Len(pk_out) = 2
  /\ RecElems(pk_out[1]) = {2}
  /\ RecElems(pk_out[2]) = {1, 3}

\* The element of a log entry fits the bin it was offered in feature f.
EntryFits(en, f) == en.used[f] + pk_src[en.e][f] <= pk_T[f]

\* C19 as stated (single-bin): an element not returned on its own is appended
\* to a bin that holds an element exactly when every feature fits.
AppendIffEveryFeatureFits ==
  pk_kind = "single_bin" =>
    \A i \in DOMAIN pk_log :
      (pk_log[i].act # "own" /\ pk_log[i].n > 0) =>
        (pk_log[i].act = "append"
           <=> \A f \in Features : EntryFits(pk_log[i], f))

\* C19 amended (single-bin): an element not returned on its own is appended
\* to the current bin when the bin is empty or some feature fits, with all
\* its values when every feature fits; only when the bin holds an element and
\* no feature fits is the bin returned tail-padded and a new bin started that
\* contains the element.
AppendWhenSomeFeatureFits ==
  pk_kind = "single_bin" =>
    \A i \in DOMAIN pk_log :
      LET en == pk_log[i]
          everyFits == \A f \in Features : EntryFits(en, f)
          someFits == \E f \in Features : EntryFits(en, f)
          recs == (IF pk_ret.kind = "elem" THEN {pk_ret.val} ELSE {})
                    \cup {PackedRecord(pk_rows[1])}
      IN (AfterNext /\ en.act # "own") =>
           /\ (en.n = 0 \/ someFits) <=> en.act = "append"
           /\ (en.act = "append" /\ everyFits) =>
                \E h \in recs : WholeSegment(h, en.e)
           /\ en.act = "new" =>
                /\ i = Len(pk_log)
                /\ pk_ret.kind = "elem"
                /\ en.e \notin RecElems(pk_ret.val)
                /\ RecElems(pk_ret.val) # {}
                /\ WellFormedFeature(pk_ret.val[1], pk_T[1])
                /\ pk_rows[1].n = 1
                /\ RecElems(PackedRecord(pk_rows[1])) = {en.e}

\* An element was appended with one feature fitting and the other truncated,
\* and a later element that fitted nowhere made the bin be returned.
AppendWhenSomeFeatureFitsWitness ==
  /\ pk_kind = "single_bin"
  /\ pk_ret.kind = "elem"
  /\ Len(pk_log) = 3
  /\ pk_log[2].act = "append"
  /\ EntryFits(pk_log[2], 1) /\ ~EntryFits(pk_log[2], 2)
  /\ pk_log[3].act = "new"

\* The number of values of element e that feature f of record r holds.
Kept(r, f, e) == Cardinality(ElemCells(r[f], e))

\* C20 (single-bin): in every record, feature f of an element holds the first
\* min(len, room) values of the element, where room is T_f minus the values
\* of the elements before it in the record, each feature on its own; the
\* values left out are in no record, and no feature holds more than T_f
\* values.
TruncatedToRoom ==
  (pk_kind = "single_bin" /\ pk_restores = 0) =>
    \A h \in DOMAIN Held :
      \A f \in Features :
        /\ Len(Held[h][f].vals) = pk_T[f]
        /\ \A e \in RecElems(Held[h]) :
             LET before == Cardinality({i \in DOMAIN Held[h][f].vals :
                             Held[h][f].segs[i] # 0
                             /\ TokenElem(Held[h][f].vals[i]) < e})
                 k == Min(pk_src[e][f], pk_T[f] - before)
             IN /\ Kept(Held[h], f, e) = k
                /\ \A i \in ElemCells(Held[h][f], e) :
                     Held[h][f].vals[i] = Token(e, f, i - before)
                /\ \A g \in DOMAIN Held \ {h} : e \notin RecElems(Held[g])

\* An element was appended to a bin with room for one of its two values in
\* one feature and for all of them in the other.
TruncatedToRoomWitness ==
  /\ pk_kind = "single_bin" /\ pk_restores = 0
  /\ \E h \in DOMAIN pk_out :
       \E e \in RecElems(pk_out[h]) :
         /\ e > 1
         /\ pk_src[e] = <<2, 2>>
         /\ Kept(pk_out[h], 1, e) = 1
         /\ Kept(pk_out[h], 2, e) = 2

\* The step is a next() call of the packer.
IsPkNext == pk_ret'.kind \in {"elem", "StopIteration"}

\* C21 (single-bin): a next() at input exhaustion with an element in the bin
\* returns the bin as a tail-padded record and leaves the bin empty, a next()
\* at input exhaustion with an empty bin signals end-of-stream, and at
\* end-of-stream every input element is in a returned record.
SingleBinFlush ==
  [][(pk_kind = "single_bin" /\ IsPkNext /\ pk_restores = 0) =>
       /\ (pk_pos = Len(pk_src) /\ pk_rows[1].n > 0) =>
            /\ pk_ret' = [kind |-> "elem", val |-> PackedRecord(pk_rows[1])]
            /\ \A f \in Features :
                 WellFormedFeature(pk_ret'.val[f], pk_T[f])
            /\ pk_rows'[1].n = 0
            /\ pk_out' = Append(pk_out, pk_ret'.val)
       /\ (pk_pos = Len(pk_src) /\ pk_rows[1].n = 0) =>
            pk_ret'.kind = "StopIteration" /\ pk_out' = pk_out
       /\ pk_ret'.kind = "StopIteration" =>
            /\ pk_pos' = Len(pk_src)
            /\ \A e \in 1..Len(pk_src) :
                 \E h \in DOMAIN pk_out' : e \in RecElems(pk_out'[h])]_vars

\* The stream ended after the bin, holding the last two of three elements and
\* padding, was returned by the call before.
SingleBinFlushWitness ==
  /\ pk_kind = "single_bin" /\ pk_restores = 0
  /\ pk_ret.kind = "StopIteration"
  /\ Len(pk_src) = 3
  /\ Len(pk_out) = 2
  /\ RecElems(pk_out[2]) = {2, 3}
  /\ \E f \in Features : pk_out[2][f].segs[pk_T[f]] = 0

\* The cells of feature f that bin holds values in.
CellsUsed(bin, f) ==
  Cardinality({i \in DOMAIN bin.feat[f].segs : bin.feat[f].segs[i] # 0})

\* Every feature of element e has room in the bin.
HasRoom(bin, e) ==
  \A f \in Features : CellsUsed(bin, f) + pk_src[e][f] <= pk_T[f]

\* The records that hold a value of element e.
Holders(e) == {h \in DOMAIN Held : e \in RecElems(Held[h])}

\* C22 (first-fit): an element is placed into the lowest-indexed bin that has
\* room for every feature of it, whatever bin was filled last, and starts a
\* new group only when no bin has room; it is in one bin only, whole when it
\* was placed into a bin with room.
FirstFitLowestBin ==
  pk_kind = "first_fit" =>
    /\ \A i \in DOMAIN pk_log :
         LET en == pk_log[i]
         IN /\ en.act = "append" =>
                 /\ HasRoom(en.bins[en.row], en.e)
                 /\ \A q \in 1..(en.row - 1) : ~HasRoom(en.bins[q], en.e)
                 /\ (AfterNext /\ pk_restores = 0) =>
                      \E h \in DOMAIN Held : WholeSegment(Held[h], en.e)
            /\ en.act = "new" =>
                 \A q \in DOMAIN en.bins : ~HasRoom(en.bins[q], en.e)
    /\ pk_restores = 0 =>
         \A e \in 1..pk_pos : Cardinality(Holders(e)) = 1

\* An element with room in both bins went into the first although the second
\* had been filled after it.
FirstFitLowestBinWitness ==
  /\ pk_kind = "first_fit" /\ pk_K = 2
  /\ AfterNext
  /\ \E i \in DOMAIN pk_log :
       /\ pk_log[i].act = "append"
       /\ pk_log[i].row = 1
       /\ pk_log[i].bins[1].n = 1
       /\ pk_log[i].bins[2].n = 1
       /\ HasRoom(pk_log[i].bins[2], pk_log[i].e)

\* The record holds an element.
HoldsElement(rec) == RecElems(rec) # {}

\* The records of the bins that hold an element, in bin order.
BinRecords(bins) == SelectSeq(RowRecords(bins), HoldsElement)

\* The records the last next() completed: the one it returned and the ones
\* it left waiting.
JustCompleted == <<pk_ret.val>> \o pk_queue

\* The values a bin holds, over all features.
TotalUsed(bin) == CellsUsed(bin, 1) + CellsUsed(bin, 2)

\* The fullest bin, the lowest-indexed one on ties.
Fullest(bins) ==
  CHOOSE v \in DOMAIN bins :
    /\ \A q \in DOMAIN bins : TotalUsed(bins[q]) <= TotalUsed(bins[v])
    /\ \A q \in 1..(v - 1) : TotalUsed(bins[q]) < TotalUsed(bins[v])

\* C23 as stated (first-fit): when an element fits in none of the bins, which
\* all hold an element, only the fullest bin is emitted, the element takes
\* its place and the other bins keep their contents.
OnlyFullestBinEvicted ==
  (pk_kind = "first_fit" /\ AfterNext) =>
    \A i \in DOMAIN pk_log :
      LET en == pk_log[i]
          v == Fullest(en.bins)
      IN (en.act = "new" /\ \A q \in DOMAIN en.bins : en.bins[q].n > 0) =>
           /\ JustCompleted = <<PackedRecord(en.bins[v])>>
           /\ RecElems(PackedRecord(pk_rows[v])) = {en.e}
           /\ \A q \in DOMAIN en.bins \ {v} : pk_rows[q] = en.bins[q]

\* C23 amended (first-fit): when an element fits in none of the bins, every
\* bin that holds an element is emitted (in bin order without shuffle_bins),
\* all bins are reset, the element is placed into the first bin and the other
\* bins are empty.
WholeGroupEvicted ==
  (pk_kind = "first_fit" /\ AfterNext) =>
    \A i \in DOMAIN pk_log :
      LET en == pk_log[i]
          recs == BinRecords(en.bins)
      IN (en.act = "new" /\ recs # <<>>) =>
           /\ i = Len(pk_log)
           /\ Len(JustCompleted) = Len(recs)
           /\ \A h \in DOMAIN recs :
                \E g \in DOMAIN JustCompleted : JustCompleted[g] = recs[h]
           /\ ~pk_shuffle => JustCompleted = recs
           /\ pk_rows[1].n = 1
           /\ RecElems(PackedRecord(pk_rows[1])) = {en.e}
           /\ \A q \in 2..pk_K :
                pk_rows[q].n = 0 /\ ~HoldsElement(PackedRecord(pk_rows[q]))

\* With two bins, the third element fitted in neither: both bins were
\* emitted, the less full first bin first, and the element is alone in the
\* first bin.
WholeGroupEvictedWitness ==
  /\ pk_kind = "first_fit" /\ pk_K = 2 /\ ~pk_shuffle
  /\ AfterNext
  /\ Len(pk_log) = 3
  /\ pk_log[3].act = "new"
  /\ TotalUsed(pk_log[3].bins[1]) < TotalUsed(pk_log[3].bins[2])
  /\ Len(pk_queue) = 1
  /\ RecElems(pk_ret.val) = {1}
  /\ RecElems(pk_queue[1]) = {2}

\* No two elements of the input fit into one bin.
NoTwoShareABin ==
  \A i, j \in DOMAIN pk_src :
    i < j => \E f \in Features : pk_src[i][f] + pk_src[j][f] > pk_T[f]

\* C24 (first-fit without shuffle_bins): the bins open at input exhaustion
\* are returned in bin order; for an input in which no two elements fit into
\* one bin the h-th record holds the h-th element alone, for every number of
\* bins, and the stream ends after one record per element.
FirstFitInputOrder ==
  (pk_kind = "first_fit" /\ ~pk_shuffle) =>
    /\ AfterNext =>
         \A i \in DOMAIN pk_log :
           pk_log[i].act = "flush" =>
             i = Len(pk_log) /\ JustCompleted = BinRecords(pk_log[i].bins)
    /\ (pk_restores = 0 /\ NoTwoShareABin) =>
         /\ \A h \in DOMAIN pk_out : RecElems(pk_out[h]) = {h}
         /\ pk_ret.kind = "StopIteration" => Len(pk_out) = Len(pk_src)

\* Three elements that pairwise do not fit together came out in input order
\* with two bins: the first two when the third fitted nowhere, the third at
\* input exhaustion.
FirstFitInputOrderWitness ==
  /\ pk_kind = "first_fit" /\ ~pk_shuffle /\ pk_K = 2
  /\ pk_restores = 0 /\ NoTwoShareABin /\ ~pk_trunc
  /\ pk_ret.kind = "StopIteration"
  /\ Len(pk_out) = 3
  /\ TotalUsed([feat |-> pk_out[1], n |-> 1])
       < TotalUsed([feat |-> pk_out[2], n |-> 1])

DsKinds == {"map", "iter", "mp"}

\* Sequences of at most n node ids out of 1..k, of a length in lo..n.
ParentLists(k, lo, n) == UNION {[1..m -> 1..k] : m \in lo..n}

\* LazyMapDataset.__init__ / LazyIterDataset.__init__: the node keeps the
\* tuple of its parents.
DatasetNode(kind, parents) == [kind |-> kind, parents |-> parents]

\* Mutant of ValidateParentDataset: only the parent itself is looked at.
RECURSIVE ValidateParentOnly(_, _)
ValidateParentOnly(nodes, to_check) ==
  IF to_check = <<>> THEN "ok"
  ELSE IF nodes[Head(to_check)].kind = "mp" THEN "ValueError"
  ELSE "ok"

\* _validate_parent_dataset: the datasets in to_check are taken from the
\* front; a process-prefetch dataset raises, any other dataset adds its
\* parents to the list.
RECURSIVE ValidateParentDataset(_, _)
ValidateParentDataset(nodes, to_check) ==
  IF to_check = <<>> THEN "ok"
  ELSE IF nodes[Head(to_check)].kind = "mp" THEN "ValueError"
  ELSE ValidateParentDataset(nodes,
         Tail(to_check) \o nodes[Head(to_check)].parents)

BFields ==
  /\ ds_nodes = <<>>
  /\ ds_ret = [kind |-> "none", parents |-> <<>>]

\* A map dataset over map datasets (a source has no parents).
NewMapDataset ==
  /\ Len(ds_nodes) < MaxNodes
  /\ \E ps \in ParentLists(Len(ds_nodes), 0, MaxParents) :
       /\ \A p \in DOMAIN ps : ds_nodes[ps[p]].kind = "map"
       /\ ds_nodes' = Append(ds_nodes, DatasetNode("map", ps))
       /\ ds_ret' = [kind |-> "map", parents |-> ps]
  /\ UNCHANGED <<functions, rg_ret, rn_args, rn_shard, rn_ret>>
  /\ UNCHANGED <<tvars, mvars, pvars, kvars>>

\* An iter dataset other than process-prefetch over datasets of any kind.
NewIterDataset ==
  /\ Len(ds_nodes) < MaxNodes
  /\ \E ps \in ParentLists(Len(ds_nodes), 1, MaxParents) :
       /\ ds_nodes' = Append(ds_nodes, DatasetNode("iter", ps))
       /\ ds_ret' = [kind |-> "iter", parents |-> ps]
  /\ UNCHANGED <<functions, rg_ret, rn_args, rn_shard, rn_ret>>
  /\ UNCHANGED <<tvars, mvars, pvars, kvars>>

\* MultiprocessPrefetchLazyIterDataset(parent, options): num_workers is
\* checked, the parent is stored and validated; when the constructor raises
\* there is no new dataset.
NewMultiprocessPrefetch ==
  /\ Len(ds_nodes) < MaxNodes
  /\ \E parent \in DOMAIN ds_nodes, workers \in 0..1 :
       LET res == IF workers < 1 THEN "ValueError"
                  ELSE ValidateParentDataset(ds_nodes, <<parent>>)
       IN /\ ds_nodes' = IF res = "ok"
                           THEN Append(ds_nodes, DatasetNode("mp", <<parent>>))
                           ELSE ds_nodes
          /\ ds_ret' = [kind |-> IF res = "ok" THEN "mp" ELSE res,
                        parents |-> <<parent>>]
  /\ UNCHANGED <<functions, rg_ret, rn_args, rn_shard, rn_ret>>
  /\ UNCHANGED <<tvars, mvars, pvars, kvars>>

BNext ==
  \/ NewMapDataset
  \/ NewIterDataset
  \/ NewMultiprocessPrefetch

\* --- set_parent_maps_slice on the constructed datasets.
\* The for loop of set_parent_maps_slice on node n from its p-th parent on: a
\* map-kind parent is replaced by a new dataset, its slice, and
\* set_parent_maps_slice is called on any other parent, which stays in place.
\* The datasets are objects: a rewrite of a dataset is seen through every
\* reference to it.
RECURSIVE SlicedParents(_, _, _)
SlicedParents(nodes, n, p) ==
  IF p > Len(nodes[n].parents) THEN nodes
  ELSE LET parent == nodes[n].parents[p]
       IN IF nodes[parent].kind = "map"
            THEN SlicedParents(
                   Append([nodes EXCEPT ![n].parents[p] = Len(nodes) + 1],
                          DatasetNode("map", <<parent>>)),
                   n, p + 1)
            ELSE SlicedParents(SlicedParents(nodes, parent, 1), n, p + 1)

\* ds.set_parent_maps_slice(sl) on an iter-kind dataset.
SetParentMapsSliceCall ==
  /\ \E n \in DOMAIN ds_nodes :
       /\ ds_nodes[n].kind # "map"
       /\ Len(SlicedParents(ds_nodes, n, 1)) <= MaxHeap
       /\ ds_nodes' = SlicedParents(ds_nodes, n, 1)
       /\ ds_ret' = [kind |-> "sliced", parents |-> <<n>>]
  /\ UNCHANGED <<functions, rg_ret, rn_args, rn_shard, rn_ret>>
  /\ UNCHANGED <<tvars, mvars, pvars, kvars>>

SNext ==
  \/ NewMapDataset
  \/ NewIterDataset
  \/ SetParentMapsSliceCall

\* --- registries: LazyMapDataset._functions and LazyIterDataset._functions.
Registries == {"map", "iter"}
FunctionNames == {"prefetch", "filter", "pack"}
Unregistered == "none"
Constructors ==
  {"PrefetchLazyIterDataset", "MultiprocessPrefetchLazyIterDataset", "f", "g"}

\* Mutant of NameTaken: the name is never found.
NameTakenNever(fns, name) == FALSE

\* `name in cls._functions`.
NameTaken(fns, name) == fns[name] # Unregistered

\* The registries once the module is loaded: the two decorators at the class
\* definitions have registered "prefetch" in each.
RFields ==
  /\ functions =
       [r \in Registries |->
          [n \in FunctionNames |->
             IF n # "prefetch" THEN Unregistered
             ELSE IF r = "map" THEN "PrefetchLazyIterDataset"
             ELSE "MultiprocessPrefetchLazyIterDataset"]]
  /\ rg_ret = [kind |-> "none", reg |-> "map", name |-> "prefetch",
               fn |-> Unregistered]

\* register_function(name, function) of the map-kind or the iter-kind class.
RegisterFunction ==
  \E reg \in Registries, name \in FunctionNames, fn \in Constructors :
    /\ IF NameTaken(functions[reg], name)
         THEN /\ rg_ret' = [kind |-> "ValueError", reg |-> reg,
                            name |-> name, fn |-> fn]
              /\ UNCHANGED functions
         ELSE /\ functions' = [functions EXCEPT ![reg][name] = fn]
              /\ rg_ret' = [kind |-> "ok", reg |-> reg, name |-> name,
                            fn |-> fn]
    /\ UNCHANGED <<ds_nodes, ds_ret, rn_args, rn_shard, rn_ret>>
    /\ UNCHANGED <<tvars, mvars, pvars, kvars>>

\* __getattr__: the constructor a name resolves to.
Resolve(reg, name) == functions[reg][name]

\* --- Range and Shard map datasets.
\* RangeLazyMapDataset.__init__: with stop = None the first argument is the
\* stop.
RangeFields(start, stop, step) ==
  [start |-> IF stop = NoneVal THEN 0 ELSE start,
   stop |-> IF stop = NoneVal THEN start ELSE stop,
   step |-> step]

\* len(range(start, stop, step)) for step # 0.
RangeLength(rg) ==
  IF rg.step > 0
    THEN IF rg.start < rg.stop
           THEN (rg.stop - rg.start + rg.step - 1) \div rg.step ELSE 0
    ELSE IF rg.start > rg.stop
           THEN (rg.start - rg.stop - rg.step - 1) \div (0 - rg.step) ELSE 0

\* Mutant of RangeGetItem: the index is used as it is.
RangeGetItemNoWrap(rg, index) ==
  IF rg.step = 0 THEN [kind |-> "ValueError", val |-> NoneVal]
  ELSE IF RangeLength(rg) = 0
    THEN [kind |-> "ZeroDivisionError", val |-> NoneVal]
  ELSE [kind |-> "elem", val |-> rg.start + index * rg.step]

\* RangeLazyMapDataset.__getitem__(index): range() raises for step 0 when the
\* length is first computed, and index % 0 raises; Python's % gives a result
\* in 0..length-1 for every integer index.
RangeGetItem(rg, index) ==
  IF rg.step = 0 THEN [kind |-> "ValueError", val |-> NoneVal]
  ELSE IF RangeLength(rg) = 0
    THEN [kind |-> "ZeroDivisionError", val |-> NoneVal]
  ELSE [kind |-> "elem",
        val |-> rg.start + (index % RangeLength(rg)) * rg.step]

\* sharding.even_split(n, options): [start, end) of shard k out of s; the
\* n % s remaining elements go one each to the first shards unless
\* drop_remainder.
EvenSplit(n, sh) ==
  LET per == n \div sh.count
      rest == n % sh.count
      extra(k) == IF sh.drop \/ rest = 0 THEN 0 ELSE Min(k, rest)
  IN [start |-> per * sh.index + extra(sh.index),
      end |-> per * (sh.index + 1) + extra(sh.index + 1)]

\* ShardLazyDataset.__getitem__(index) over a Range parent: // and % raise for
\* an empty shard and round towards minus infinity otherwise.
ShardGetItem(rg, sh, index) ==
  IF rg.step = 0 THEN [kind |-> "ValueError", val |-> NoneVal]
  ELSE
    LET sp == EvenSplit(RangeLength(rg), sh)
        len == sp.end - sp.start
    IN IF len = 0 THEN [kind |-> "ZeroDivisionError", val |-> NoneVal]
       ELSE RangeGetItem(rg, (index \div len) * RangeLength(rg)
                               + (index % len) + sp.start)

ShardOptions ==
  {[index |-> k, count |-> s, drop |-> d] :
     k \in 0..(MaxShards - 1), s \in 1..MaxShards, d \in BOOLEAN}

NoAt == [op |-> "none", index |-> 0, kind |-> "none", val |-> NoneVal]

GFields == rn_ret = NoAt

\* ds[index] on the Range dataset.
RangeAt ==
  /\ \E index \in (0 - MaxIndex)..MaxIndex :
       LET r == RangeGetItem(rn_args, index)
       IN rn_ret' = [op |-> "range", index |-> index, kind |-> r.kind,
                     val |-> r.val]
  /\ UNCHANGED <<ds_nodes, ds_ret, functions, rg_ret, rn_args, rn_shard>>
  /\ UNCHANGED <<tvars, mvars, pvars, kvars>>

\* ds[index] on the Shard dataset over the Range dataset.
ShardAt ==
  /\ \E index \in (0 - MaxIndex)..MaxIndex :
       LET r == ShardGetItem(rn_args, rn_shard, index)
       IN rn_ret' = [op |-> "shard", index |-> index, kind |-> r.kind,
                     val |-> r.val]
  /\ UNCHANGED <<ds_nodes, ds_ret, functions, rg_ret, rn_args, rn_shard>>
  /\ UNCHANGED <<tvars, mvars, pvars, kvars>>

GNext ==
  \/ RangeAt
  \/ ShardAt

\* The dataset classes while an iterator is explored, and each part of them
\* while another part is explored.
GIdleArgs ==
  /\ rn_args = RangeFields(0, 1, 1)
  /\ rn_shard = [index |-> 0, count |-> 1, drop |-> FALSE]

DIdle == BFields /\ RFields /\ GIdleArgs /\ GFields

GInit ==
  /\ BFields
  /\ RFields
  /\ \E start \in 0..MaxRangeStop, stop \in {NoneVal} \cup 0..MaxRangeStop,
        step \in -1..2 :
       rn_args = RangeFields(start, stop, step)
  /\ rn_shard \in {sh \in ShardOptions : sh.index < sh.count}
  /\ GFields

\* --------------------------------------------------- dataset-class claims
\* The nodes of the pipeline that ends in node n: n and all its ancestors.
RECURSIVE Pipeline(_)
Pipeline(n) ==
  {n} \cup UNION {Pipeline(ds_nodes[n].parents[p]) :
                    p \in DOMAIN ds_nodes[n].parents}

PrefetchNodes(n) == {a \in Pipeline(n) : ds_nodes[a].kind = "mp"}

\* C27, as the specification states it: a process-prefetch node is only ever
\* constructed over a parent whose ancestors hold no process-prefetch node,
\* and no sequence of constructions yields a pipeline with two such nodes.
OneProcessPrefetchPerPipeline ==
  /\ ds_ret.kind = "mp" => PrefetchNodes(ds_ret.parents[1]) = {}
  /\ \A n \in DOMAIN ds_nodes : Cardinality(PrefetchNodes(n)) <= 1

\* C28: a register_function call for a name already in the registry it is
\* made on raises ValueError and leaves both registries as they were, so the
\* name still resolves to the constructor registered first.
DuplicateRegistrationFails ==
  [][\A reg \in Registries, name \in FunctionNames :
       (/\ rg_ret'.reg = reg /\ rg_ret'.name = name
        /\ functions[reg][name] # Unregistered
        /\ (rg_ret' # rg_ret \/ functions' # functions))
       => /\ rg_ret'.kind = "ValueError"
          /\ functions' = functions
          /\ Resolve(reg, name)' = functions[reg][name]]_vars

\* A second registration of a name the program itself registered, with
\* another constructor, has raised and the first constructor is kept.
DuplicateRegistrationFailsWitness ==
  /\ rg_ret.kind = "ValueError"
  /\ rg_ret.reg = "iter" /\ rg_ret.name = "filter" /\ rg_ret.fn = "g"
  /\ Resolve("iter", "filter") = "f"
  /\ Resolve("map", "filter") = "g"

\* C29, as the specification states it: ds[index] with index < 0 on the Range
\* dataset or on the Shard dataset raises instead of returning an element.
NegativeIndexRejected ==
  (rn_ret.op # "none" /\ rn_ret.index < 0) => rn_ret.kind # "elem"

\* The declared epoch length of the Range dataset: the number of values
\* start, start + step, ... before stop.
DeclaredLength ==
  Cardinality({k \in 0..MaxRangeStop :
     IF rn_args.step > 0 THEN rn_args.start + k * rn_args.step < rn_args.stop
     ELSE rn_args.step < 0 /\ rn_args.start + k * rn_args.step > rn_args.stop})

\* C30, as the specification states it: on every Range dataset ds[index]
\* with index >= 0 returns start + (index mod length) * step.
RangeAtDefinedEverywhere ==
  (rn_ret.op = "range" /\ rn_ret.index >= 0)
    => /\ rn_ret.kind = "elem"
       /\ DeclaredLength > 0
       /\ rn_ret.val = rn_args.start
                         + (rn_ret.index % DeclaredLength) * rn_args.step

\* C30: on a Range dataset with step # 0 and a positive declared length,
\* ds[index] with index >= 0 returns start + (index mod length) * step.
RangeAtWraps ==
  (/\ rn_ret.op = "range" /\ rn_ret.index >= 0
   /\ rn_args.step # 0 /\ DeclaredLength > 0)
    => /\ rn_ret.kind = "elem"
       /\ rn_ret.val = rn_args.start
                         + (rn_ret.index % DeclaredLength) * rn_args.step

\* Range(1, 3, 1) has length 2; index 3 is in the second epoch and gives 2.
RangeAtWrapsWitness ==
  /\ rn_args = [start |-> 1, stop |-> 3, step |-> 1]
  /\ rn_ret = [op |-> "range", index |-> 3, kind |-> "elem", val |-> 2]

\* The iter-kind datasets a set_parent_maps_slice call on node n reaches: n
\* and the iter-kind parents of the datasets it reaches.
RECURSIVE ReachedBySlice(_)
ReachedBySlice(n) ==
  {n} \cup UNION {ReachedBySlice(ds_nodes[n].parents[p]) :
                    p \in {i \in DOMAIN ds_nodes[n].parents :
                             ds_nodes[ds_nodes[n].parents[i]].kind # "map"}}

\* C33, as the specification states it: after set_parent_maps_slice on a
\* dataset, every map-kind parent of a dataset reached through iter-kind
\* parents is replaced by a slice of that very parent, iter-kind parents stay
\* in place, and every other dataset is as it was, whatever the parent DAG.
EveryMapParentSlicedOnce ==
  [][(ds_ret'.kind = "sliced" /\ ds_nodes' # ds_nodes) =>
       \A n \in DOMAIN ds_nodes :
         IF n \in ReachedBySlice(ds_ret'.parents[1])
           THEN /\ ds_nodes'[n].kind = ds_nodes[n].kind
                /\ DOMAIN ds_nodes'[n].parents = DOMAIN ds_nodes[n].parents
                /\ \A p \in DOMAIN ds_nodes[n].parents :
                     LET old == ds_nodes[n].parents[p]
                         new == ds_nodes'[n].parents[p]
                     IN IF ds_nodes[old].kind = "map"
                          THEN /\ new > Len(ds_nodes)
                               /\ ds_nodes'[new] = DatasetNode("map", <<old>>)
                          ELSE new = old
           ELSE ds_nodes'[n] = ds_nodes[n]]_vars

Init == TInit /\ MIdle /\ PIdle /\ KIdle /\ DIdle

Next ==
  \/ NextCall
  \/ NextGet
  \/ StateCall
  \/ StateGet
  \/ SetStateCall
  \/ CloseCall
  \/ Drain
  \/ WorkLoop
  \/ WorkGet
  \/ ProducerStart
  \/ ProducerAdvance
  \/ ProducerPut

Spec == Init /\ [][Next]_vars

InitMap == TIdle /\ MInit /\ PIdle /\ KIdle /\ DIdle

SpecMap == InitMap /\ [][MNext]_vars

InitMapRaising == TIdle /\ MInitRaising /\ PIdle /\ KIdle /\ DIdle

SpecMapRaising == InitMapRaising /\ [][MNextRaising]_vars

InitMP == TIdle /\ MIdle /\ PInit /\ KIdle /\ DIdle

SpecMP == InitMP /\ [][PNext]_vars

\* Spec with the user's direct start_prefetch() calls.
NextPrefetch ==
  \/ Next
  \/ StartPrefetchCall

SpecPrefetch == Init /\ [][NextPrefetch]_vars

\* Fair scheduling: the work thread takes its next step when it can, and a
\* caller inside _stop_producer goes on with its drain loop.  The calls
\* themselves are the caller's choice.
Fairness ==
  /\ WF_vars(WorkLoop)
  /\ WF_vars(WorkGet)
  /\ WF_vars(ProducerStart)
  /\ WF_vars(ProducerAdvance)
  /\ WF_vars(ProducerPut)
  /\ WF_vars(Drain)

SpecFair == Init /\ [][Next]_vars /\ Fairness

\* Spec with a caller that writes into the records state() returned.
NextCaller ==
  \/ Next
  \/ CallerModifies

SpecCaller == Init /\ [][NextCaller]_vars

InitPack == TIdle /\ MIdle /\ PIdle /\ KInit /\ DIdle

SpecPack == InitPack /\ [][KNext]_vars
InitBuild == TIdle /\ MIdle /\ PIdle /\ KIdle /\ BFields /\ RFields
               /\ GIdleArgs /\ GFields

SpecBuild == InitBuild /\ [][BNext]_vars

SpecSlice == InitBuild /\ [][SNext]_vars

SpecRegistry == InitBuild /\ [][RegisterFunction]_vars

InitRange == TIdle /\ MIdle /\ PIdle /\ KIdle /\ GInit

SpecRange == InitRange /\ [][GNext]_vars

====
